---------------------------- MODULE Spec2Model ----------------------------
(***************************************************************************)
(* A model of go.rtnl.ai/httpcache: the cache-key functions, the           *)
(* CachingReadCloser and Transport.RoundTrip over a shared Cache.          *)
(*                                                                         *)
(* Strings are sequences of one-character strings, so that concatenation,  *)
(* trimming, replacement and sorting are computed character by character   *)
(* as the Go code computes them.                                           *)
(***************************************************************************)
EXTENDS Integers, Sequences, FiniteSets

VARIABLES
    cfg,        \* which of Configs the Transport and its traffic are
    store,      \* Transport.Cache: key -> stored bytes (a dumped response)
    storedFor,  \* history: key -> the request whose response was dumped there
    nreq,       \* number of RoundTrip calls started so far
    pc,         \* per caller: where its RoundTrip call is
    req,        \* per caller: the request of its RoundTrip call
    lk,         \* per caller: cacheKey, cacheable, cached of RoundTrip
    out,        \* per caller: rep, err of RoundTrip, and what it did
    body,       \* per caller: the CachingReadCloser set on the response
    pend,       \* per caller: the keys Transport.store has still to Put
    kin,        \* inputs of a cache-key function call
    kout,       \* its results
    rd          \* a CachingReadCloser read on its own, with an OnEOF log

tvars == << cfg, store, storedFor, nreq, pc, req, lk, out, body, pend >>
kvars == << kin, kout >>
rvars == << rd >>
vars == << cfg, store, storedFor, nreq, pc, req, lk, out, body, pend,
           kin, kout, rd >>

(***************************************************************************)
(* Characters and strings                                                  *)
(***************************************************************************)

\* The characters of the model in increasing byte order (sort.Strings
\* compares bytes).
ByteOrder ==
    << "\t", "\n", "\r", " ", "*", ",", "-", "/", ":",
       "A", "B", "C", "D", "E", "F", "G", "H", "I", "J", "K", "L", "M",
       "N", "O", "P", "Q", "R", "S", "T", "U", "V", "W", "X", "Y", "Z",
       "a", "b", "c", "d", "e", "f", "g", "h", "i", "j", "k", "l", "m",
       "n", "o", "p", "q", "r", "s", "t", "u", "v", "w", "x", "y", "z",
       "|" >>

UpperLetters ==
    << "A", "B", "C", "D", "E", "F", "G", "H", "I", "J", "K", "L", "M",
       "N", "O", "P", "Q", "R", "S", "T", "U", "V", "W", "X", "Y", "Z" >>

LowerLetters ==
    << "a", "b", "c", "d", "e", "f", "g", "h", "i", "j", "k", "l", "m",
       "n", "o", "p", "q", "r", "s", "t", "u", "v", "w", "x", "y", "z" >>

Range(f) == { f[i] : i \in DOMAIN f }

IndexOf(c, seq) == CHOOSE i \in 1..Len(seq) : seq[i] = c

Code(c) == IndexOf(c, ByteOrder)

IsUpper(c) == c \in Range(UpperLetters)
IsLower(c) == c \in Range(LowerLetters)
ToUpper(c) == IF IsLower(c) THEN UpperLetters[IndexOf(c, LowerLetters)] ELSE c
ToLower(c) == IF IsUpper(c) THEN LowerLetters[IndexOf(c, UpperLetters)] ELSE c

\* Go's string comparison a < b (byte-wise lexicographic).
RECURSIVE StrLess(_, _)
StrLess(a, b) ==
    IF b = <<>> THEN FALSE
    ELSE IF a = <<>> THEN TRUE
    ELSE IF a[1] = b[1] THEN StrLess(Tail(a), Tail(b))
    ELSE Code(a[1]) < Code(b[1])

\* sort.Strings: the list in increasing order (insertion into a sorted list).
RECURSIVE InsertSorted(_, _)
InsertSorted(s, sorted) ==
    IF sorted = <<>> THEN << s >>
    ELSE IF StrLess(s, sorted[1]) THEN << s >> \o sorted
    ELSE << sorted[1] >> \o InsertSorted(s, Tail(sorted))

\* sort.Strings left out: the parts in the order they were appended.
Unsorted(parts) == parts

RECURSIVE SortStrings(_)
SortStrings(parts) ==
    IF parts = <<>> THEN <<>>
    ELSE InsertSorted(parts[1], SortStrings(Tail(parts)))

\* strings.Join(parts, sep)
RECURSIVE Join(_, _)
Join(parts, sep) ==
    IF parts = <<>> THEN <<>>
    ELSE IF Len(parts) = 1 THEN parts[1]
    ELSE parts[1] \o sep \o Join(Tail(parts), sep)

IsSpace(c) == c \in { " ", "\t", "\n", "\r" }

\* The white space strings.TrimSpace trims: that of the loop of normalize
\* and more (unicode.IsSpace), of which the form feed stands here.
IsTrimSpace(c) == IsSpace(c) \/ c = "\f"

RECURSIVE TrimLeft(_)
TrimLeft(s) ==
    IF s # <<>> /\ IsTrimSpace(s[1]) THEN TrimLeft(Tail(s)) ELSE s

RECURSIVE TrimRight(_)
TrimRight(s) ==
    IF s # <<>> /\ IsTrimSpace(s[Len(s)])
    THEN TrimRight(SubSeq(s, 1, Len(s) - 1))
    ELSE s

\* strings.TrimSpace
TrimSpace(s) == TrimRight(TrimLeft(s))

\* The loop of normalize: every run of space, tab, CR, LF becomes one space.
RECURSIVE CollapseSpaces(_, _)
CollapseSpaces(s, prevSpace) ==
    IF s = <<>> THEN <<>>
    ELSE IF IsSpace(s[1])
         THEN (IF prevSpace THEN <<>> ELSE << " " >>)
              \o CollapseSpaces(Tail(s), TRUE)
         ELSE << s[1] >> \o CollapseSpaces(Tail(s), FALSE)

\* strings.ReplaceAll(s, ", ", ","): left to right, non-overlapping.
RECURSIVE ReplaceCommaSpace(_)
ReplaceCommaSpace(s) ==
    IF s = <<>> THEN <<>>
    ELSE IF Len(s) >= 2 /\ s[1] = "," /\ s[2] = " "
         THEN << "," >> \o ReplaceCommaSpace(SubSeq(s, 3, Len(s)))
         ELSE << s[1] >> \o ReplaceCommaSpace(Tail(s))

\* normalize replacing ", " before it collapses the white space.
normalizeReplaceFirst(value) ==
    CollapseSpaces(ReplaceCommaSpace(TrimSpace(value)), FALSE)

normalize(value) == ReplaceCommaSpace(CollapseSpaces(TrimSpace(value), FALSE))

\* strings.Split(val, ","): the fields between commas (always at least one).
RECURSIVE SplitComma(_, _)
SplitComma(s, cur) ==
    IF s = <<>> THEN << cur >>
    ELSE IF s[1] = "," THEN << cur >> \o SplitComma(Tail(s), <<>>)
    ELSE SplitComma(Tail(s), Append(cur, s[1]))

(***************************************************************************)
(* Header names and header maps                                            *)
(***************************************************************************)

\* A byte net/textproto accepts in a header field name (the token
\* characters of the model's alphabet).
ValidHeaderFieldByte(c) == IsUpper(c) \/ IsLower(c) \/ c \in { "*", "-", "|" }

RECURSIVE CanonicalLoop(_, _)
CanonicalLoop(s, upper) ==
    IF s = <<>> THEN <<>>
    ELSE LET c == IF upper THEN ToUpper(s[1]) ELSE ToLower(s[1])
         IN  << c >> \o CanonicalLoop(Tail(s), c = "-")

\* http.CanonicalHeaderKey: a name holding a byte that is no token character
\* is returned unchanged.
CanonicalHeaderKey(s) ==
    IF \E i \in 1..Len(s) : ~ValidHeaderFieldByte(s[i]) THEN s
    ELSE CanonicalLoop(s, TRUE)

Vary == << "V", "a", "r", "y" >>
RangeHeader == << "R", "a", "n", "g", "e" >>
Authorization ==
    << "A", "u", "t", "h", "o", "r", "i", "z", "a", "t", "i", "o", "n" >>
XVariedPrefix == << "X", "-", "V", "a", "r", "i", "e", "d", "-" >>
AcceptLanguage ==
    << "A", "c", "c", "e", "p", "t", "-",
       "L", "a", "n", "g", "u", "a", "g", "e" >>

\* http.Header is a map from canonical names to lists of values; a name
\* outside DOMAIN h is an absent header.
NoHeader == [ n \in {} |-> <<>> ]

\* http.Header.Get: the first value of the header, "" when it is absent.
HeaderGet(h, name) ==
    LET k == CanonicalHeaderKey(name)
    IN  IF k \in DOMAIN h /\ h[k] # <<>> THEN h[k][1] ELSE <<>>

\* http.Header.Set: replaces the values of the header by the one value.
HeaderSet(h, name, value) ==
    LET k == CanonicalHeaderKey(name)
    IN  [ n \in DOMAIN h \cup { k } |-> IF n = k THEN << value >> ELSE h[n] ]

RECURSIVE TrimmedNonEmpty(_)
TrimmedNonEmpty(fields) ==
    IF fields = <<>> THEN <<>>
    ELSE LET s == TrimSpace(fields[1])
         IN  (IF s # <<>> THEN << s >> ELSE <<>>)
             \o TrimmedNonEmpty(Tail(fields))

RECURSIVE AllCSVs(_)
AllCSVs(vals) ==
    IF vals = <<>> THEN <<>>
    ELSE TrimmedNonEmpty(SplitComma(vals[1], <<>>)) \o AllCSVs(Tail(vals))

allHeaderCSVs(headers, header) ==
    LET k == CanonicalHeaderKey(header)
    IN  IF k \in DOMAIN headers THEN AllCSVs(headers[k]) ELSE <<>>

(***************************************************************************)
(* Cache keys                                                              *)
(***************************************************************************)

MethodGet == << "G", "E", "T" >>
MethodHead == << "H", "E", "A", "D" >>
MethodPost == << "P", "O", "S", "T" >>

\* cacheKey without the method: the URL for every request.
cacheKeyNoMethod(r) == r.url

\* cacheKey: the URL for GET, "<METHOD> <url>" otherwise.
cacheKey(r) ==
    IF r.method = MethodGet THEN r.url
    ELSE r.method \o << " " >> \o r.url

\* HeaderParts with a part for every listed header, empty values included.
RECURSIVE HeaderPartsKeepEmpty(_, _)
HeaderPartsKeepEmpty(r, headers) ==
    IF headers = <<>> THEN <<>>
    ELSE LET canonical == CanonicalHeaderKey(headers[1])
         IN  << canonical \o << ":" >> \o normalize(HeaderGet(r.header, canonical)) >>
             \o HeaderPartsKeepEmpty(r, Tail(headers))

\* VaryParts with no part for a header the request has no value for.
RECURSIVE VaryPartsSkipEmpty(_, _)
VaryPartsSkipEmpty(r, varyHeaders) ==
    IF varyHeaders = <<>> THEN <<>>
    ELSE LET canonical == CanonicalHeaderKey(varyHeaders[1])
             value == normalize(HeaderGet(r.header, canonical))
         IN  (IF canonical = <<>> \/ canonical = << "*" >> \/ value = <<>>
              THEN <<>>
              ELSE << canonical \o << ":" >> \o value >>)
             \o VaryPartsSkipEmpty(r, Tail(varyHeaders))

RECURSIVE HeaderParts(_, _)
HeaderParts(r, headers) ==
    IF headers = <<>> THEN <<>>
    ELSE LET canonical == CanonicalHeaderKey(headers[1])
             value == normalize(HeaderGet(r.header, canonical))
         IN  (IF value # <<>>
              THEN << canonical \o << ":" >> \o value >>
              ELSE <<>>)
             \o HeaderParts(r, Tail(headers))

cacheKeyWithHeaders(r, headers) ==
    LET key == cacheKey(r)
        parts == HeaderParts(r, headers)
    IN  IF headers = <<>> THEN key
        ELSE IF parts # <<>>
             THEN key \o << "|" >> \o Join(SortStrings(parts), << "|" >>)
             ELSE key

RECURSIVE VaryParts(_, _)
VaryParts(r, varyHeaders) ==
    IF varyHeaders = <<>> THEN <<>>
    ELSE LET canonical == CanonicalHeaderKey(varyHeaders[1])
             value == normalize(HeaderGet(r.header, canonical))
         IN  (IF canonical = <<>> \/ canonical = << "*" >>
              THEN <<>>
              ELSE << canonical \o << ":" >> \o value >>)
             \o VaryParts(r, Tail(varyHeaders))

cacheKeyWithVary(r, varyHeaders) ==
    LET key == cacheKey(r)
        parts == VaryParts(r, varyHeaders)
    IN  IF varyHeaders = <<>> THEN key
        ELSE IF parts # <<>>
             THEN key \o << "|", "v", "a", "r", "y", ":" >>
                      \o Join(SortStrings(parts), << "|" >>)
             ELSE key

(***************************************************************************)
(* CachingReadCloser (io.go)                                               *)
(***************************************************************************)

Min(a, b) == IF a < b THEN a ELSE b

\* What one Read(p) of the wrapped stream R may return when r.data is still
\* unread and len(p) = lenp >= 1 (the io.Reader contract): some of the data
\* with no error (possibly fewer bytes than asked for and than available),
\* the last bytes together with io.EOF, nothing and io.EOF at the end, or
\* some bytes together with a read error. A stream that has returned a read
\* error keeps returning it.
StreamOutcomes(r, lenp) ==
    IF r.failed
    THEN { [n |-> 0, err |-> "ERR"] }
    ELSE { [n |-> n, err |-> "nil"] : n \in 1..Min(lenp, Len(r.data)) }
         \cup { [n |-> Len(r.data), err |-> "EOF"] : n \in { m \in {0} : Len(r.data) <= lenp } }
         \cup { [n |-> n, err |-> "ERR"] : n \in 0..Min(lenp, Len(r.data)) }

\* The buffer written only when R.Read returned no error.
ReadBufOnSuccess(r, o) ==
    IF o.err = "nil" THEN r.buf \o SubSeq(r.data, 1, o.n) ELSE r.buf

\* CachingReadCloser.Read, lines 24-25: n, err = r.R.Read(p); r.buf.Write(p[:n])
ReadBuf(r, o) == r.buf \o SubSeq(r.data, 1, o.n)
ReadRest(r, o) == SubSeq(r.data, o.n + 1, Len(r.data))

\* CachingReadCloser.Read, line 27: the condition under which OnEOF is called.
OnEOFFires(lenp, o) == o.err = "EOF" \/ o.n < lenp

(***************************************************************************)
(* Requests, responses and the Cache                                       *)
(***************************************************************************)

\* A *http.Request: method, URL, headers, and the Cache-Control directives
\* httpcc.Request reads from it.
NoReq == [ method |-> <<>>, url |-> <<>>, header |-> NoHeader, cc |-> {} ]

\* A nil *http.Response.
Nil == [ kind |-> "nil" ]

\* A *http.Response: cl is ContentLength (-1: unknown, as in a chunked
\* response), cc the Cache-Control directives httpcc.Response reads from it.
Response(status, header, cc, b, cl) ==
    [ kind |-> "rep", status |-> status, header |-> header, cc |-> cc,
      body |-> b, cl |-> cl ]

understoodStatusCodes == { 200, 203, 204, 206, 300, 301, 404, 405, 410, 414, 501 }

\* Cache.Put and Cache.Del on a map from keys to bytes.
Put(cache, key, val) ==
    [ k \in DOMAIN cache \cup { key } |-> IF k = key THEN val ELSE cache[k] ]
\* InMemoryCache.Get: the bytes under key, nil when there are none.
Get(cache, key) == IF key \in DOMAIN cache THEN cache[key] ELSE Nil
Del(cache, key) == [ k \in DOMAIN cache \ { key } |-> cache[k] ]

\* httputil.DumpResponse(rep, true) with the body b read from rep.Body: the
\* wire form of the response. Response.Write fails when ContentLength is
\* known and differs from the number of body bytes, unless the response
\* answers a HEAD request (toHead).
DumpResponse(rep, b, toHead) ==
    IF ~toHead /\ rep.cl # -1 /\ rep.cl # Len(b)
    THEN [ kind |-> "error" ]
    ELSE [ kind |-> "dump", status |-> rep.status, header |-> rep.header,
           cc |-> rep.cc, body |-> b ]

\* http.ReadResponse on stored bytes.
ReadResponse(val) ==
    Response(val.status, val.header, val.cc, val.body, Len(val.body))

\* Stored bytes that are no response.
Garbage == [ kind |-> "garbage" ]

\* The error of http.ReadResponse on stored bytes.
ReadResponseErr(val) == IF val.kind = "dump" THEN "nil" ELSE "parse"

\* cachedResponse, its response: the parsed entry under key, nil when there
\* is none or when it does not parse.
cachedResponse(cache, key) ==
    IF key \in DOMAIN cache /\ ReadResponseErr(cache[key]) = "nil"
    THEN ReadResponse(cache[key]) ELSE Nil

\* cachedResponse, its error: nil on a miss, the error of http.ReadResponse
\* otherwise.
cachedResponseErr(cache, key) ==
    IF key \in DOMAIN cache THEN ReadResponseErr(cache[key]) ELSE "nil"

isUnsafeMethod(method) ==
    method \in { MethodPost, << "P", "U", "T" >>,
                 << "D", "E", "L", "E", "T", "E" >>,
                 << "P", "A", "T", "C", "H" >> }

\* cacheable without the test of the Range header.
CacheableAnyRange(r) == r.method \in { MethodGet, MethodHead }

\* cacheable of RoundTrip, line 119.
Cacheable(r) ==
    r.method \in { MethodGet, MethodHead } /\ HeaderGet(r.header, RangeHeader) = <<>>

\* A Cache-Control header httpcc cannot parse is a directive set holding
\* Malformed next to the directives written in the header.
Malformed == "malformed"

\* httpcc.Response / httpcc.Request with the fallback of cacheResponse lines
\* 196-204: on a parse error the directives are replaced by the empty
\* directive set.
ParseOrEmpty(cc) == IF Malformed \in cc THEN {} ELSE cc

\* canStore without the must-understand override of no-store.
canStoreNoOverride(rep, r, reqcc, repcc, isPublic) ==
    IF "must-understand" \in repcc /\ rep.status \notin understoodStatusCodes
    THEN FALSE
    ELSE IF "no-store" \in repcc \/ "no-store" \in reqcc
    THEN FALSE
    ELSE IF isPublic /\ HeaderGet(r.header, Authorization) # <<>>
            /\ "public" \notin repcc /\ "must-revalidate" \notin repcc
            /\ "s-maxage" \notin repcc
    THEN FALSE
    ELSE IF "private" \in repcc /\ isPublic
    THEN FALSE
    ELSE TRUE

\* Transport.canStore, with t.IsPublicCache as isPublic and the parsed
\* directives as sets of directive names.
canStore(rep, r, reqcc, repcc, isPublic) ==
    IF "must-understand" \in repcc /\ rep.status \notin understoodStatusCodes
    THEN FALSE
    ELSE IF "must-understand" \notin repcc
            /\ ("no-store" \in repcc \/ "no-store" \in reqcc)
    THEN FALSE
    ELSE IF isPublic /\ HeaderGet(r.header, Authorization) # <<>>
            /\ "public" \notin repcc /\ "must-revalidate" \notin repcc
            /\ "s-maxage" \notin repcc
    THEN FALSE
    ELSE IF "private" \in repcc /\ isPublic
    THEN FALSE
    ELSE TRUE

\* storeVaryHeaders: one X-Varied-<name> header per name of the response's
\* Vary list, holding the request's normalized value of that header.
RECURSIVE SetVaried(_, _, _)
SetVaried(header, r, names) ==
    IF names = <<>> THEN header
    ELSE LET varyKey == CanonicalHeaderKey(TrimSpace(names[1]))
         IN  IF varyKey = <<>> \/ varyKey = << "*" >>
             THEN SetVaried(header, r, Tail(names))
             ELSE SetVaried(
                    HeaderSet(header, XVariedPrefix \o varyKey,
                              normalize(HeaderGet(r.header, varyKey))),
                    r, Tail(names))

\* storeVaryHeaders leaving the response as it came.
storeVaryHeadersNone(rep, r) == rep

storeVaryHeaders(rep, r) ==
    [ rep EXCEPT !.header = SetVaried(rep.header, r, allHeaderCSVs(rep.header, Vary)) ]

\* CacheKeys without the test of DisableVaryHeaderSeparation.
CacheKeysIgnoreDisable(r, rep, key, disableVary) ==
    LET varyHeaders == allHeaderCSVs(rep.header, Vary)
        varyKey == cacheKeyWithVary(r, varyHeaders)
    IN  IF varyHeaders # <<>> /\ varyKey # key
        THEN << key, varyKey >>
        ELSE << key >>

\* cacheKeys of cacheResponse, lines 230-241.
CacheKeys(r, rep, key, disableVary) ==
    LET varyHeaders == allHeaderCSVs(rep.header, Vary)
        varyKey == cacheKeyWithVary(r, varyHeaders)
    IN  IF ~disableVary /\ varyHeaders # <<>> /\ varyKey # key
        THEN << key, varyKey >>
        ELSE << key >>

\* ShouldStore with the ShouldCache hook consulted before canStore.
ShouldStoreHookFirst(r, rep, cacheable, isPublic, hook) ==
    /\ cacheable
    /\ \/ hook = "true"
       \/ /\ canStore(rep, r, ParseOrEmpty(r.cc), ParseOrEmpty(rep.cc), isPublic)
          /\ rep.status \in understoodStatusCodes

\* The decision of cacheResponse for a non-nil response, lines 196-224:
\* whether the response is to be written to the cache.
ShouldStore(r, rep, cacheable, isPublic, hook) ==
    LET repcc == ParseOrEmpty(rep.cc)
        reqcc == ParseOrEmpty(r.cc)
    IN  /\ cacheable
        /\ canStore(rep, r, reqcc, repcc, isPublic)
        /\ \/ rep.status \in understoodStatusCodes
           \/ "must-understand" \in repcc /\ rep.status \in understoodStatusCodes
           \/ hook = "true"

(***************************************************************************)
(* The Transport's configuration and its traffic                           *)
(***************************************************************************)

\* The callers whose RoundTrip calls and body reads overlap.
Procs == { "c1", "c2" }
\* Number of RoundTrip calls in a run.
MaxRequests == 3
\* Largest buffer a caller passes to Read.
MaxBuf == 2

URL == << "/", "r" >>
En == << "e", "n" >>
Fr == << "f", "r" >>
User1 == << "u", "a" >>
User2 == << "u", "b" >>
OriginBody == << "x", "y" >>

Request(method, header) ==
    [ method |-> method, url |-> URL, header |-> header, cc |-> {} ]

Hdr(name, value) == [ n \in { name } |-> << value >> ]
Hdr2(n1, v1, n2, v2) == [ n \in { n1, n2 } |-> IF n = n1 THEN << v1 >> ELSE << v2 >> ]

\* The fields of Transport (Cache is "set" to a store or "nil"), the requests
\* its callers make and the Vary header the origin answers with.
Config(name, keyHeaders, menu, originHeader) ==
    [ name |-> name,
      Cache |-> "set",
      CacheKeyHeaders |-> keyHeaders,
      MarkCachedResponses |-> TRUE,
      ServerErrorsFromCache |-> FALSE,
      IsPublicCache |-> FALSE,
      DisableVaryHeaderSeparation |-> FALSE,
      ShouldCache |-> "nil",
      menu |-> menu,
      originHeader |-> originHeader ]

\* Language variants: the origin answers with Vary: Accept-Language.
\* Callers that only send GET requests with a Range header.
CfgRange ==
    Config("range", <<>>, { Request(MethodGet, Hdr(RangeHeader, << "b" >>)) }, NoHeader)

CfgVary ==
    Config("vary", <<>>,
           { Request(MethodGet, Hdr(AcceptLanguage, En)),
             Request(MethodGet, Hdr(AcceptLanguage, Fr)) },
           Hdr(Vary, AcceptLanguage))

\* Per-user entries: CacheKeyHeaders = [Authorization], and the origin
\* answers with Vary: Accept-Language.
CfgAuth ==
    Config("auth", << Authorization >>,
           { Request(MethodGet, Hdr2(Authorization, User1, AcceptLanguage, En)),
             Request(MethodGet, Hdr2(Authorization, User2, AcceptLanguage, En)) },
           Hdr(Vary, AcceptLanguage))

\* Safe and unsafe methods on one URL; the origin sends no Vary header.
CfgMethods ==
    Config("methods", <<>>,
           { Request(MethodGet, NoHeader),
             Request(MethodHead, NoHeader),
             Request(MethodPost, NoHeader),
             Request(MethodGet, Hdr(RangeHeader, << "b" >>)) },
           NoHeader)

Configs == { CfgVary, CfgAuth, CfgMethods }

\* The requests whose responses cacheResponse decides on: cache-eligible
\* (GET, HEAD) and not (POST, GET with Range), with and without
\* Cache-Control: no-store.
StoreMenu ==
    { [ r EXCEPT !.cc = cc ] :
        r \in { Request(MethodGet, NoHeader), Request(MethodHead, NoHeader),
                Request(MethodPost, NoHeader),
                Request(MethodGet, Hdr(RangeHeader, << "b" >>)) },
        cc \in { {}, { "no-store" } } }

\* A Transport with IsPublicCache as isPublic and a ShouldCache hook that is
\* nil ("nil") or returns hook for every response.
StoreConfig(name, isPublic, hook) ==
    [ Config(name, <<>>, StoreMenu, NoHeader) EXCEPT
        !.IsPublicCache = isPublic, !.ShouldCache = hook ]

StoreConfigs ==
    { StoreConfig("private-nil", FALSE, "nil"),
      StoreConfig("private-true", FALSE, "true"),
      StoreConfig("private-false", FALSE, "false"),
      StoreConfig("shared-nil", TRUE, "nil"),
      StoreConfig("shared-true", TRUE, "true"),
      StoreConfig("shared-false", TRUE, "false") }

\* A language variant requested whole and by range: the origin answers with
\* Vary: Accept-Language.
CfgStale ==
    Config("stale", <<>>,
           { Request(MethodGet, Hdr(AcceptLanguage, Fr)),
             Request(MethodGet, Hdr2(AcceptLanguage, Fr, RangeHeader, << "b" >>)) },
           Hdr(Vary, AcceptLanguage))

\* A Transport whose Cache field was never set: &Transport{}.
CfgNoCache ==
    [ Config("nocache", <<>>, StoreMenu, NoHeader) EXCEPT !.Cache = "nil" ]

\* The language variants on a Transport with ServerErrorsFromCache set.
CfgErrors == [ CfgVary EXCEPT !.name = "errors", !.ServerErrorsFromCache = TRUE ]

\* Requests with and without Accept-Language, answered with no Vary header,
\* with Vary: Accept-Language, with Vary: * or with
\* Vary: accept-language, *.
VaryMenu ==
    { Request(m, h) : m \in { MethodGet, MethodHead },
                      h \in { NoHeader, Hdr(AcceptLanguage, En), Hdr(AcceptLanguage, Fr) } }

VaryHeaders ==
    { NoHeader, Hdr(Vary, AcceptLanguage), Hdr(Vary, << "*" >>),
      Hdr(Vary, << "a", "c", "c", "e", "p", "t", "-",
                   "l", "a", "n", "g", "u", "a", "g", "e", ",", " ", "*" >>) }

\* Transports with Vary separation (the default) and with
\* DisableVaryHeaderSeparation set.
CfgSep == Config("sep", <<>>, VaryMenu, NoHeader)
CfgNoSep == [ CfgSep EXCEPT !.name = "nosep", !.DisableVaryHeaderSeparation = TRUE ]

\* A GET with Accept-Language: " fr" and a HEAD without Accept-Language; the
\* origin answers with Vary: accept-language, *.
CfgMarkers ==
    Config("markers", <<>>,
           { Request(MethodGet, Hdr(AcceptLanguage, << " " >> \o Fr)),
             Request(MethodHead, NoHeader) },
           Hdr(Vary, << "a", "c", "c", "e", "p", "t", "-",
                        "l", "a", "n", "g", "u", "a", "g", "e", ",", " ", "*" >>))

ETag == << "E", "t", "a", "g" >>
IfNoneMatch ==
    << "I", "f", "-", "N", "o", "n", "e", "-", "M", "a", "t", "c", "h" >>

\* The language variants with an origin that sends a validator: ETag: e.
CfgETag ==
    [ CfgVary EXCEPT !.name = "etag",
                     !.originHeader = Hdr2(Vary, AcceptLanguage, ETag, << "e" >>) ]

\* The configuration in force.
Cfg ==
    CHOOSE c \in Configs \cup StoreConfigs
                    \cup { CfgStale, CfgNoCache, CfgErrors, CfgETag, CfgSep, CfgNoSep,
                           CfgMarkers, CfgRange } :
        c.name = cfg

\* What the underlying transport may return for a request: an error, or the
\* origin's 200 response (no body for HEAD; a GET body of known or unknown
\* length).
Origin(r, c) ==
    { [ kind |-> "error" ] }
    \cup IF r.method = MethodHead
         THEN { Response(200, c.originHeader, {}, <<>>, 0) }
         ELSE { Response(200, c.originHeader, {}, OriginBody, cl) :
                    cl \in { Len(OriginBody), -1 } }

\* The response directives canStore reads.
Directives ==
    { "must-understand", "no-store", "private", "public", "must-revalidate", "s-maxage" }

\* Status codes of the responses handed to canStore and cacheResponse: in
\* the understood set (200, 301, 404) and outside it (302, 500).
StoreStatuses == { 200, 301, 404, 302, 500 }

\* The directives of the responses cacheResponse decides on.
StoreDirectives == { "no-store", "must-understand", "private" }

\* The responses of Origin with any status of StoreStatuses and any
\* directives of StoreDirectives.
OriginAny(r, c) ==
    { [ o EXCEPT !.status = status, !.cc = cc ] :
        o \in Origin(r, c) \ { [ kind |-> "error" ] },
        status \in StoreStatuses, cc \in SUBSET StoreDirectives }

\* The responses of Origin with each header map of VaryHeaders.
OriginVary(r, c) ==
    { [ o EXCEPT !.header = h ] :
        o \in Origin(r, c) \ { [ kind |-> "error" ] }, h \in VaryHeaders }

\* The directives of requests and responses as their Cache-Control header
\* gives them, the header parsing or not.
ParseDirectives == { "no-store", "private", Malformed }

\* The requests of StoreMenu, also with a Cache-Control header that does not
\* parse.
ParseMenu ==
    { [ r EXCEPT !.cc = cc ] : r \in StoreMenu, cc \in SUBSET { "no-store", Malformed } }

\* The responses of Origin with any status of StoreStatuses and any
\* directives of ParseDirectives.
OriginParse(r, c) ==
    { [ o EXCEPT !.status = status, !.cc = cc ] :
        o \in Origin(r, c) \ { [ kind |-> "error" ] },
        status \in StoreStatuses, cc \in SUBSET ParseDirectives }

(***************************************************************************)
(* Transport.RoundTrip, one caller at a time per slot of Procs             *)
(***************************************************************************)

NoLk == [ cacheKey |-> <<>>, cacheable |-> FALSE, cached |-> Nil,
          cachedFor |-> NoReq, had |-> FALSE, err |-> "nil", varyErr |-> "nil" ]
NoOut == [ rep |-> Nil, err |-> "nil", fwd |-> FALSE, panic |-> FALSE ]
NoBody == [ on |-> FALSE, data |-> <<>>, buf |-> <<>>, eof |-> FALSE, failed |-> FALSE,
            keys |-> <<>> ]
NoPend == [ keys |-> <<>>, val |-> Nil ]
NoStore == [ k \in {} |-> Nil ]

\* AfterGate without the delete of lines 144-148.
AfterGateNoDel(cache, key, cacheable) == cache

\* RoundTrip lines 122-148 on the cache: a request that is not cacheable
\* deletes the entry under its key before anything else happens.
AfterGate(cache, key, cacheable) ==
    IF cacheable THEN cache ELSE Del(cache, key)

\* RoundTrip lines 129-132: whether the lookup is repeated under the
\* Vary-augmented key.
TryVary(r, key, cached, disableVary) ==
    /\ ~disableVary
    /\ cached # Nil
    /\ allHeaderCSVs(cached.header, Vary) # <<>>
    /\ cacheKeyWithVary(r, allHeaderCSVs(cached.header, Vary)) # key

\* RoundTrip lines 118-132 and 144-148: the key, the cacheability gate and
\* the lookup under the key (or the delete). With a nil Cache the call
\* cache.Get of cachedResponse (line 124) or t.Cache.Del (line 147) is a method
\* call on a nil interface value: RoundTrip panics there.
Lookup(p, r) ==
    /\ pc[p] = "idle"
    /\ nreq < MaxRequests
    /\ r \in Cfg.menu
    /\ LET key == cacheKeyWithHeaders(r, Cfg.CacheKeyHeaders)
           cacheable == Cacheable(r)
           cached == IF cacheable THEN cachedResponse(store, key) ELSE Nil
       IN  IF Cfg.Cache = "nil"
           THEN /\ lk' = [ lk EXCEPT ![p] =
                             [ NoLk EXCEPT !.cacheKey = key, !.cacheable = cacheable ] ]
                /\ out' = [ out EXCEPT ![p].panic = TRUE ]
                /\ pc' = [ pc EXCEPT ![p] = "done" ]
                /\ UNCHANGED << store, storedFor >>
           ELSE /\ store' = AfterGate(store, key, cacheable)
                /\ storedFor' = AfterGate(storedFor, key, cacheable)
                /\ lk' = [ lk EXCEPT ![p] =
                             [ cacheKey |-> key, cacheable |-> cacheable,
                               cached |-> cached,
                               cachedFor |-> IF cached # Nil THEN storedFor[key] ELSE NoReq,
                               had |-> key \in DOMAIN store,
                               err |-> IF cacheable THEN cachedResponseErr(store, key)
                                       ELSE "nil",
                               varyErr |-> "nil" ] ]
                /\ pc' = [ pc EXCEPT ![p] =
                             IF cacheable /\ TryVary(r, key, cached, Cfg.DisableVaryHeaderSeparation)
                             THEN "varylookup" ELSE "call" ]
                /\ UNCHANGED out
    /\ req' = [ req EXCEPT ![p] = r ]
    /\ nreq' = nreq + 1
    /\ UNCHANGED << cfg, body, pend, kin, kout, rd >>

\* RoundTrip lines 133-139: cached and cacheKey after the lookup under the
\* Vary-augmented key found cachedVary (nil on a miss).
VaryResult(l, varyKey, cachedVary, cachedVaryFor) ==
    IF cachedVary # Nil
    THEN [ l EXCEPT !.cached = cachedVary, !.cacheKey = varyKey,
                    !.cachedFor = cachedVaryFor ]
    ELSE l

VaryLookup(p) ==
    /\ pc[p] = "varylookup"
    /\ LET varyKey == cacheKeyWithVary(req[p], allHeaderCSVs(lk[p].cached.header, Vary))
           cachedVary == cachedResponse(store, varyKey)
       IN  lk' = [ lk EXCEPT ![p] =
                     [ VaryResult(lk[p], varyKey, cachedVary,
                                  IF cachedVary # Nil THEN storedFor[varyKey] ELSE NoReq)
                       EXCEPT !.varyErr = cachedResponseErr(store, varyKey) ] ]
    /\ pc' = [ pc EXCEPT ![p] = "call" ]
    /\ UNCHANGED << cfg, store, storedFor, nreq, req, out, body, pend, kin, kout, rd >>

\* RoundTrip line 157: a cached candidate was found.
Hit(l) == l.cacheable /\ l.cached # Nil /\ l.err = "nil"

\* Transport.processCachedResponse: (rep, err).
processCachedResponse(cached, r, key) == [ rep |-> Nil, err |-> "nil" ]

\* RoundTrip lines 157-158: the cached candidate is processed; the
\* underlying transport is not called.
ProcessCached(p) ==
    /\ pc[p] = "call"
    /\ Hit(lk[p])
    /\ LET res == processCachedResponse(lk[p].cached, req[p], lk[p].cacheKey)
       IN  /\ out' = [ out EXCEPT ![p].rep = res.rep, ![p].err = res.err ]
           /\ pc' = [ pc EXCEPT ![p] = IF res.err # "nil" THEN "done" ELSE "respond" ]
    /\ UNCHANGED << cfg, store, storedFor, nreq, req, lk, body, pend, kin, kout, rd >>

\* RoundTrip going on to cacheResponse whatever the underlying transport
\* returned.
AfterForwardUnchecked(err) == "respond"

\* RoundTrip lines 164-166: where RoundTrip goes with what the underlying
\* transport returned; with an error it returns.
AfterForward(err) == IF err # "nil" THEN "done" ELSE "respond"

\* err left as the lookup set it when the underlying transport succeeds.
ForwardErrKept(l, o) ==
    IF o.kind = "error" THEN "error" ELSE l.err

\* RoundTrip line 160: err after rep, err = t.processUncachedRequest(...),
\* which replaces the err of the lookup l.
ForwardErr(l, o) == IF o.kind = "error" THEN "error" ELSE "nil"

\* RoundTrip lines 159-166 with processUncachedRequest: the underlying
\* transport is called; its error ends RoundTrip.
Forward(p, o) ==
    /\ pc[p] = "call"
    /\ ~Hit(lk[p])
    /\ o \in Origin(req[p], Cfg)
    /\ out' = [ out EXCEPT ![p].rep = IF o.kind = "error" THEN Nil ELSE o,
                           ![p].err = ForwardErr(lk[p], o),
                           ![p].fwd = TRUE ]
    /\ pc' = [ pc EXCEPT ![p] = AfterForward(ForwardErr(lk[p], o)) ]
    /\ UNCHANGED << cfg, store, storedFor, nreq, req, lk, body, pend, kin, kout, rd >>

\* processUncachedRequest: the request handed to the underlying transport is
\* the caller's request as it is.
Forwarded(p) == req[p]

\* Transport.invalidateCache on the cache.
invalidateCache(cache, r, rep) == cache

\* RoundTrip lines 170-176 with cacheResponse. With a nil response (crash
\* says whether httpcc.Response(nil) panics) cacheResponse either deletes the
\* entry (canStore false) or panics reading rep.StatusCode. Otherwise the
\* entry is deleted, or the body is wrapped (GET), or the response is dumped
\* and handed to Transport.store (other methods).
Respond(p, crash) ==
    /\ pc[p] = "respond"
    /\ LET r == req[p]
           rep == out[p].rep
           key == lk[p].cacheKey
           inval == IF isUnsafeMethod(r.method) THEN invalidateCache(store, r, rep) ELSE store
           invalFor == IF isUnsafeMethod(r.method) THEN invalidateCache(storedFor, r, rep) ELSE storedFor
           marked == storeVaryHeaders(rep, r)
           keys == CacheKeys(r, marked, key, Cfg.DisableVaryHeaderSeparation)
           dump == DumpResponse(marked, rep.body, r.method = MethodHead)
       IN  IF rep = Nil
           THEN IF crash \/ (lk[p].cacheable
                             /\ canStore(rep, r, ParseOrEmpty(r.cc), {}, Cfg.IsPublicCache))
                THEN /\ out' = [ out EXCEPT ![p].panic = TRUE ]
                     /\ store' = inval
                     /\ storedFor' = invalFor
                     /\ UNCHANGED << body, pend >>
                ELSE /\ store' = Del(inval, key)
                     /\ storedFor' = Del(invalFor, key)
                     /\ UNCHANGED << out, body, pend >>
           ELSE /\ crash = FALSE
                /\ IF ~ShouldStore(r, rep, lk[p].cacheable, Cfg.IsPublicCache, Cfg.ShouldCache)
                   THEN /\ store' = Del(inval, key)
                        /\ storedFor' = Del(invalFor, key)
                        /\ UNCHANGED << out, body, pend >>
                   ELSE /\ store' = inval
                        /\ storedFor' = invalFor
                        /\ out' = [ out EXCEPT ![p].rep = marked ]
                        /\ IF r.method = MethodGet
                           THEN /\ body' = [ body EXCEPT ![p] =
                                               [ on |-> TRUE, data |-> rep.body, buf |-> <<>>,
                                                 eof |-> FALSE, failed |-> FALSE,
                                                 keys |-> keys ] ]
                                /\ UNCHANGED pend
                           ELSE /\ pend' = [ pend EXCEPT ![p] =
                                               IF dump.kind = "dump"
                                               THEN [ keys |-> keys, val |-> dump ]
                                               ELSE NoPend ]
                                /\ UNCHANGED body
    /\ pc' = [ pc EXCEPT ![p] = IF pend'[p].keys # <<>> THEN "storing" ELSE "done" ]
    /\ UNCHANGED << cfg, nreq, req, lk, kin, kout, rd >>

\* Transport.store lines 269-271: one Put of the loop over cacheKeys.
StorePut(p) ==
    /\ pend[p].keys # <<>>
    /\ store' = Put(store, Head(pend[p].keys), pend[p].val)
    /\ storedFor' = Put(storedFor, Head(pend[p].keys), req[p])
    /\ pend' = [ pend EXCEPT ![p] =
                   IF Tail(pend[p].keys) = <<>> THEN NoPend
                   ELSE [ pend[p] EXCEPT !.keys = Tail(pend[p].keys) ] ]
    /\ pc' = [ pc EXCEPT ![p] =
                 IF pc[p] = "storing" /\ Tail(pend[p].keys) = <<>> THEN "done" ELSE pc[p] ]
    /\ UNCHANGED << cfg, nreq, req, lk, out, body, kin, kout, rd >>

\* The caller reads the body RoundTrip returned: CachingReadCloser.Read with
\* the OnEOF of setupCachingBody, which dumps a copy of the response with
\* the buffered bytes as body and hands it to Transport.store.
Read(p, lenp, o) ==
    /\ pc[p] = "done"
    /\ body[p].on
    /\ pend[p].keys = <<>>
    /\ lenp \in 1..MaxBuf
    /\ o \in StreamOutcomes(body[p], lenp)
    /\ LET buf == ReadBuf(body[p], o)
           dump == DumpResponse(out[p].rep, buf, FALSE)
       IN  /\ body' = [ body EXCEPT ![p].buf = buf, ![p].data = ReadRest(body[p], o),
                                   ![p].eof = (body[p].eof \/ o.err = "EOF"),
                                   ![p].failed = (body[p].failed \/ o.err = "ERR") ]
           /\ pend' = [ pend EXCEPT ![p] =
                          IF OnEOFFires(lenp, o) /\ dump.kind = "dump"
                          THEN [ keys |-> body[p].keys, val |-> dump ]
                          ELSE NoPend ]
    /\ UNCHANGED << cfg, store, storedFor, nreq, pc, req, lk, out, kin, kout, rd >>

\* The caller is done with the result of RoundTrip (it closes the body, if
\* there is one); its slot is free for the next call.
Release(p) ==
    /\ pc[p] = "done"
    /\ pend[p].keys = <<>>
    /\ pc' = [ pc EXCEPT ![p] = "idle" ]
    /\ req' = [ req EXCEPT ![p] = NoReq ]
    /\ lk' = [ lk EXCEPT ![p] = NoLk ]
    /\ out' = [ out EXCEPT ![p] = NoOut ]
    /\ body' = [ body EXCEPT ![p] = NoBody ]
    /\ UNCHANGED << cfg, store, storedFor, nreq, pend, kin, kout, rd >>

(***************************************************************************)
(* The cache-key functions on their own                                    *)
(***************************************************************************)

\* Longest list of header names passed to a key function.
MaxNames == 2

HA == << "A" >>
HB == << "B" >>
KeyNames == { HA, HB }

\* Header values: empty, plain, with surrounding space, and one holding the
\* key delimiters "|" and ":".
KeyValues ==
    { <<>>, << "a" >>, << "b" >>, << " ", "a" >>, << "a", "|", "B", ":", "b" >> }

\* Header maps over A and B: each absent, or present with one value.
KeyHeaders ==
    UNION { [ D -> { << v >> : v \in KeyValues } ] : D \in SUBSET KeyNames }

KeyRequests ==
    { [ method |-> m, url |-> u, header |-> h, cc |-> {} ] :
        m \in { MethodGet, MethodHead }, u \in { URL, << "/", "s" >> },
        h \in KeyHeaders }

NameLists == UNION { [ 1..n -> KeyNames ] : n \in 0..MaxNames }

NoKin == [ op |-> "none" ]
NoKout == [ op |-> "none" ]

\* The three key functions applied to two requests and one list of names.
KeyCall ==
    /\ kin.op = "pair"
    /\ kout.op = "none"
    /\ kout' = [ op |-> "pair",
                 base1 |-> cacheKey(kin.r1),
                 base2 |-> cacheKey(kin.r2),
                 hdr1 |-> cacheKeyWithHeaders(kin.r1, kin.names),
                 hdr2 |-> cacheKeyWithHeaders(kin.r2, kin.names),
                 vary1 |-> cacheKeyWithVary(kin.r1, kin.names),
                 vary2 |-> cacheKeyWithVary(kin.r2, kin.names) ]
    /\ UNCHANGED << cfg, store, storedFor, nreq, pc, req, lk, out, body, pend, kin, rd >>

(***************************************************************************)
(* The key functions on lists of names in any order and letter case        *)
(***************************************************************************)

XA == << "X", "-", "A" >>

\* Names as they come in CacheKeyHeaders or in a Vary header: in canonical,
\* lower and mixed case, the wildcard and the empty name.
ListNames ==
    { XA, << "x", "-", "a" >>, << "X", "-", "a" >>, HB, << "b" >>, << "*" >>, <<>> }

ListNameLists == UNION { [ 1..n -> ListNames ] : n \in 0..MaxNames }

\* Requests with X-A absent, empty or "a" and B absent or " b".
ListRequests ==
    { [ method |-> m, url |-> URL, header |-> h, cc |-> {} ] :
        m \in { MethodGet, MethodHead },
        h \in { <<>>, Hdr(XA, <<>>), Hdr(XA, << "a" >>), Hdr(HB, << " ", "b" >>),
                 Hdr2(XA, <<>>, HB, << " ", "b" >>),
                 Hdr2(XA, << "a" >>, HB, << " ", "b" >>) } }

LowerName(name) == [ i \in 1..Len(name) |-> ToLower(name[i]) ]

\* names2 is names reordered, each name in any letter case.
IsVariant(names, names2) ==
    /\ Len(names) = Len(names2)
    /\ \E pi \in [ 1..Len(names) -> 1..Len(names) ] :
          /\ \A i, j \in 1..Len(names) : pi[i] = pi[j] => i = j
          /\ \A i \in 1..Len(names) : LowerName(names2[i]) = LowerName(names[pi[i]])

\* The lists of names paired with their variants.
ListPairs == { u \in ListNameLists \X ListNameLists : IsVariant(u[1], u[2]) }

\* cacheKeyWithHeaders and cacheKeyWithVary applied to one request with a
\* list of names and with a variant of the list.
ListCall ==
    /\ kin.op = "list"
    /\ kout.op = "none"
    /\ kout' = [ op |-> "list",
                 base |-> cacheKey(kin.r),
                 hdr |-> cacheKeyWithHeaders(kin.r, kin.names),
                 hdr2 |-> cacheKeyWithHeaders(kin.r, kin.names2),
                 vary |-> cacheKeyWithVary(kin.r, kin.names),
                 vary2 |-> cacheKeyWithVary(kin.r, kin.names2) ]
    /\ UNCHANGED << cfg, store, storedFor, nreq, pc, req, lk, out, body, pend, kin, rd >>

(***************************************************************************)
(* normalize on its own                                                    *)
(***************************************************************************)

\* Longest header value handed to normalize.
MaxValue == 4

\* Header values: items separated by commas, with spaces and tabs.
NormChars == { "a", ",", " ", "\t" }
NormValues == UNION { [ 1..n -> NormChars ] : n \in 0..MaxValue }

\* The items of a comma-separated list, without the white space around them.
Items(value) ==
    LET fields == SplitComma(value, <<>>)
    IN  [ i \in 1..Len(fields) |-> TrimSpace(fields[i]) ]

\* The characters of the values normalize is applied to twice.
IdemChars == { "a", ",", " ", "\t", "\f" }

\* normalize applied to a value and to its own result.
NormalizeTwiceCall ==
    /\ kin.op = "idem"
    /\ kout.op = "none"
    /\ kout' = [ op |-> "idem", once |-> normalize(kin.x),
                 twice |-> normalize(normalize(kin.x)) ]
    /\ UNCHANGED << cfg, store, storedFor, nreq, pc, req, lk, out, body, pend, kin, rd >>

\* normalize applied to two values holding the same list of items.
NormalizeCall ==
    /\ kin.op = "norm"
    /\ kout.op = "none"
    /\ kout' = [ op |-> "norm", n1 |-> normalize(kin.v1), n2 |-> normalize(kin.v2) ]
    /\ UNCHANGED << cfg, store, storedFor, nreq, pc, req, lk, out, body, pend, kin, rd >>

(***************************************************************************)
(* A CachingReadCloser on its own, its OnEOF logging what it receives      *)
(***************************************************************************)

\* Longest content of the wrapped stream.
MaxLen == 3
\* Number of Read calls made on one CachingReadCloser.
MaxReads == 3

NoRd == [ on |-> FALSE ]

\* A CachingReadCloser over a stream holding the bytes 1..n: full is the
\* stream's content, data what is still unread, calls the contents of the
\* readers OnEOF received, in order; closed says whether R was closed, rclose
\* what R.Close returned and ret what CachingReadCloser.Close returned.
NewRd(n) ==
    [ on |-> TRUE, full |-> [ i \in 1..n |-> i ], data |-> [ i \in 1..n |-> i ],
      buf |-> <<>>, calls |-> <<>>, nreads |-> 0, got |-> <<>>,
      eof |-> FALSE, failed |-> FALSE, closed |-> FALSE,
      rclose |-> "none", ret |-> "none" ]

\* CachingReadCloser.Read: got is what the caller has been handed so far.
RdRead(lenp, o) ==
    /\ rd.on
    /\ ~rd.closed
    /\ rd.nreads < MaxReads
    /\ lenp \in 1..MaxBuf
    /\ o \in StreamOutcomes(rd, lenp)
    /\ rd' = [ rd EXCEPT !.buf = ReadBuf(rd, o),
                         !.data = ReadRest(rd, o),
                         !.got = @ \o SubSeq(rd.data, 1, o.n),
                         !.calls = IF OnEOFFires(lenp, o)
                                   THEN Append(@, ReadBuf(rd, o)) ELSE @,
                         !.nreads = @ + 1,
                         !.eof = (@ \/ o.err = "EOF"),
                         !.failed = (@ \/ o.err = "ERR") ]
    /\ UNCHANGED << cfg, store, storedFor, nreq, pc, req, lk, out, body, pend, kin, kout >>

\* Close returning nil whatever R.Close returned.
CloseResultNil(res) == "nil"

\* CachingReadCloser.Close, line 37: the result is that of R.Close.
CloseResult(res) == res

\* CachingReadCloser.Close: closes R, whose Close returns res (nil or an
\* error).
RdClose(res) ==
    /\ rd.on
    /\ ~rd.closed
    /\ res \in { "nil", "ERR" }
    /\ rd' = [ rd EXCEPT !.closed = TRUE, !.rclose = res, !.ret = CloseResult(res) ]
    /\ UNCHANGED << cfg, store, storedFor, nreq, pc, req, lk, out, body, pend, kin, kout >>

(***************************************************************************)
(* Transport.canStore on its own                                           *)
(***************************************************************************)

\* The requests handed to canStore: with and without Authorization, with and
\* without Cache-Control: no-store.
StoreRequests ==
    { [ Request(MethodGet, h) EXCEPT !.cc = cc ] :
        h \in { NoHeader, Hdr(Authorization, User1) }, cc \in { {}, { "no-store" } } }

\* t.canStore(rep, req, reqcc, repcc) on a Transport with IsPublicCache set
\* to kin.isPublic.
CanStoreCall ==
    /\ kin.op = "canStore"
    /\ kout.op = "none"
    /\ kout' = [ op |-> "canStore",
                 ok |-> canStore(kin.rep, kin.r, kin.r.cc, kin.rep.cc, kin.isPublic) ]
    /\ UNCHANGED << cfg, store, storedFor, nreq, pc, req, lk, out, body, pend, kin, rd >>

(***************************************************************************)
(* Transport.store on its own                                              *)
(***************************************************************************)

\* rep.Body left empty by the dump.
BodyAfterDumpDrained(b) == <<>>

\* What rep.Body holds after httputil.DumpResponse(rep, true) of line 268 has
\* read the body b from it: DumpResponse puts a copy of what it read back.
BodyAfterDump(b) == b

\* Transport.store(rep, key) on a cache, b being what rep.Body holds: the
\* cache afterwards (unchanged when the dump fails) and rep.Body afterwards.
TransportStore(cache, rep, b, toHead, key) ==
    LET data == DumpResponse(rep, b, toHead)
    IN  [ cache |-> IF data.kind = "dump" THEN Put(cache, key, data) ELSE cache,
          body |-> BodyAfterDump(b) ]

\* The responses handed to Transport.store: with an empty, one-byte or
\* two-byte body and a ContentLength that is unknown, right or wrong.
StoreResponses ==
    { Response(status, h, {}, b, cl) :
        status \in { 200, 404 }, h \in { NoHeader, Hdr(Vary, AcceptLanguage) },
        b \in { <<>>, << "x" >>, OriginBody }, cl \in { -1, 0, 2 } }

\* t.store(rep, key) called twice for the same response, with the bytes
\* under the key read back after each call (nil when there are none).
StoreTwiceCall ==
    /\ kin.op = "store"
    /\ kout.op = "none"
    /\ LET once == TransportStore(kin.cache, kin.rep, kin.rep.body, kin.toHead, kin.key)
           twice == TransportStore(once.cache, kin.rep, once.body, kin.toHead, kin.key)
       IN  kout' = [ op |-> "store",
                     first |-> Get(once.cache, kin.key),
                     second |-> Get(twice.cache, kin.key),
                     keys |-> DOMAIN twice.cache ]
    /\ UNCHANGED << cfg, store, storedFor, nreq, pc, req, lk, out, body, pend, kin, rd >>

(***************************************************************************)
(* The storage backends: InMemoryCache and the leveldb Cache               *)
(***************************************************************************)

MaxCalls == 4

Backends == { "inmem", "leveldb" }
BackendKeys == { << "a" >>, << "b" >> }
BackendValues == { [ kind |-> "bytes", data |-> d ] : d \in { << "x" >>, << "y" >> } }

\* The methods a backend declares: *InMemoryCache has Get, Put and Rm, the
\* leveldb *Cache has Get, Put, Del and Close.
Methods(b) ==
    IF b = "inmem" THEN { "Get", "Put", "Rm" } ELSE { "Get", "Put", "Del", "Close" }

\* InMemoryCache.Get: val, ok = c.store[key].
MemGet(c, key) == [ val |-> Get(c, key), ok |-> key \in DOMAIN c ]

\* InMemoryCache.Rm: delete(c.store, key).
Rm(c, key) == [ k \in DOMAIN c \ { key } |-> c[k] ]

\* leveldb Cache.Get of a value found although the read failed.
LevelGetIgnoreErr(db, key, ioerr) == MemGet(db, key)

\* leveldb Cache.Get: (nil, false) on any error of db.Get, ErrNotFound or not.
LevelGet(db, key, ioerr) ==
    IF ioerr \/ key \notin DOMAIN db
    THEN [ val |-> Nil, ok |-> FALSE ]
    ELSE [ val |-> db[key], ok |-> TRUE ]

\* leveldb Cache.Put: db.Put, an error only logged; a failed write leaves
\* the database as it was.
LevelPut(db, key, val, ioerr) == IF ioerr THEN db ELSE Put(db, key, val)

\* leveldb Cache.Del: db.Delete, an error only logged.
LevelDel(db, key, ioerr) == IF ioerr THEN db ELSE Rm(db, key)

\* The outcomes db can have for a call: only the leveldb database can fail.
IOErrs == IF kin.backend = "leveldb" THEN BOOLEAN ELSE { FALSE }

\* The state of a backend after construction: the zero InMemoryCache or a
\* database freshly opened by leveldb.New. last is the history of the calls:
\* per key the value of the latest Put, nil after a delete or with no call.
NewBackend ==
    [ op |-> "backend", store |-> NoStore,
      last |-> [ k \in BackendKeys |-> Nil ],
      ret |-> [ call |-> "none" ], nomethod |-> FALSE, ioerr |-> FALSE,
      calls |-> 0 ]

\* What every call does to the history.
Called(ioerr) ==
    [ kout EXCEPT !.calls = @ + 1, !.ioerr = @ \/ ioerr ]

BackendGet(key, ioerr) ==
    /\ kin.op = "backend"
    /\ kout.calls < MaxCalls
    /\ kout' = [ Called(ioerr) EXCEPT
                   !.ret = [ call |-> "Get", key |-> key, ioerr |-> ioerr,
                             got |-> IF kin.backend = "inmem"
                                     THEN MemGet(kout.store, key)
                                     ELSE LevelGet(kout.store, key, ioerr) ] ]
    /\ UNCHANGED << tvars, kin, rd >>

BackendPut(key, val, ioerr) ==
    /\ kin.op = "backend"
    /\ kout.calls < MaxCalls
    /\ kout' = [ Called(ioerr) EXCEPT
                   !.ret = [ call |-> "Put", key |-> key, ioerr |-> ioerr ],
                   !.last[key] = val,
                   !.store = IF kin.backend = "inmem"
                             THEN Put(kout.store, key, val)
                             ELSE LevelPut(kout.store, key, val, ioerr) ]
    /\ UNCHANGED << tvars, kin, rd >>

\* A call of Del, the delete of the Cache interface: the backend's own Del
\* where it declares one, and a call that cannot be made where it does not.
BackendDel(key, ioerr) ==
    /\ kin.op = "backend"
    /\ kout.calls < MaxCalls
    /\ kout' = [ Called(ioerr) EXCEPT
                   !.ret = [ call |-> "Del", key |-> key, ioerr |-> ioerr ],
                   !.last[key] = Nil,
                   !.nomethod = @ \/ "Del" \notin Methods(kin.backend),
                   !.store = IF "Del" \in Methods(kin.backend)
                             THEN LevelDel(kout.store, key, ioerr)
                             ELSE kout.store ]
    /\ UNCHANGED << tvars, kin, rd >>

BackendRm(key) ==
    /\ kin.op = "backend"
    /\ "Rm" \in Methods(kin.backend)
    /\ kout.calls < MaxCalls
    /\ kout' = [ Called(FALSE) EXCEPT
                   !.ret = [ call |-> "Rm", key |-> key, ioerr |-> FALSE ],
                   !.last[key] = Nil,
                   !.store = Rm(kout.store, key) ]
    /\ UNCHANGED << tvars, kin, rd >>

(***************************************************************************)
(* One InMemoryCache called from several goroutines                        *)
(***************************************************************************)

\* A goroutine that is in no call.
NoCall == [ at |-> "idle", call |-> "none" ]

\* The zero InMemoryCache with its RWMutex free. gone is the history of the
\* deletes: the keys whose delete has returned with no Put called since.
NewShared ==
    [ op |-> "race", store |-> NoStore, readers |-> {}, writers |-> {},
      g |-> [ p \in Procs |-> NoCall ], gone |-> {}, nomethod |-> FALSE,
      ret |-> [ call |-> "none" ], calls |-> 0 ]

\* The goroutines between Lock/RLock and Unlock/RUnlock.
Inside == { p \in Procs : kout.g[p].at \in { "locked", "unlock" } }

\* The goroutines other than p that are in a Put of key.
Putting(p, key) ==
    { q \in Procs \ { p } : kout.g[q].call = "Put" /\ kout.g[q].key = key }

\* Goroutine p calls Get, Put, Rm or Del. fresh says, of a Get, that the
\* key's delete had returned with no Put called since and, of a delete, that
\* no Put of the key is under way; a Put of the key called later unsets it.
\* Del is no method of *InMemoryCache: that call cannot be made and does
\* nothing.
Invoke(p, call, key, val) ==
    /\ kin.op = "race"
    /\ kout.g[p].at = "idle"
    /\ kout.calls < MaxCalls
    /\ kout' = [ kout EXCEPT
                   !.calls = @ + 1,
                   !.g[p] = [ at |-> IF call \in Methods("inmem") THEN "lock" ELSE "return",
                              call |-> call, key |-> key, val |-> val,
                              fresh |-> IF call = "Get" THEN key \in kout.gone
                                        ELSE call # "Put" /\ Putting(p, key) = {},
                              got |-> [ val |-> Nil, ok |-> FALSE ] ],
                   !.nomethod = @ \/ call \notin Methods("inmem"),
                   !.gone = IF call = "Put" THEN @ \ { key } ELSE @,
                   !.g = [ q \in Procs |->
                             IF q # p /\ call = "Put" /\ kout.g[q].at # "idle"
                                /\ kout.g[q].key = key
                             THEN [ @[q] EXCEPT !.fresh = FALSE ]
                             ELSE @[q] ] ]
    /\ UNCHANGED << tvars, kin, rd >>

\* c.RLock() of Get, c.Lock() of Put and Rm: a reader waits for the writer,
\* a writer for the writer and for every reader.
Acquire(p) ==
    /\ kin.op = "race"
    /\ kout.g[p].at = "lock"
    /\ kout.writers = {}
    /\ kout.g[p].call = "Get" \/ kout.readers = {}
    /\ kout' = [ kout EXCEPT
                   !.g[p].at = "locked",
                   !.readers = IF kout.g[p].call = "Get" THEN @ \cup { p } ELSE @,
                   !.writers = IF kout.g[p].call = "Get" THEN @ ELSE @ \cup { p } ]
    /\ UNCHANGED << tvars, kin, rd >>

\* The line between the lock and the unlock: the read, the write or the
\* delete of c.store.
Operate(p) ==
    /\ kin.op = "race"
    /\ kout.g[p].at = "locked"
    /\ LET c == kout.g[p]
       IN  kout' = [ kout EXCEPT
                       !.g[p].at = "unlock",
                       !.g[p].got = IF c.call = "Get" THEN MemGet(kout.store, c.key) ELSE @,
                       !.store = CASE c.call = "Put" -> Put(@, c.key, c.val)
                                   [] c.call = "Rm" -> Rm(@, c.key)
                                   [] OTHER -> @ ]
    /\ UNCHANGED << tvars, kin, rd >>

\* c.RUnlock() and c.Unlock().
Unlock(p) ==
    /\ kin.op = "race"
    /\ kout.g[p].at = "unlock"
    /\ kout' = [ kout EXCEPT !.g[p].at = "return",
                             !.readers = @ \ { p }, !.writers = @ \ { p } ]
    /\ UNCHANGED << tvars, kin, rd >>

\* The call returns to the goroutine.
Return(p) ==
    /\ kin.op = "race"
    /\ kout.g[p].at = "return"
    /\ kout' = [ kout EXCEPT
                   !.g[p] = NoCall,
                   !.ret = kout.g[p],
                   !.gone = IF kout.g[p].call \in { "Rm", "Del" } /\ kout.g[p].fresh
                            THEN @ \cup { kout.g[p].key } ELSE @ ]
    /\ UNCHANGED << tvars, kin, rd >>

(***************************************************************************)
(* Specifications                                                          *)
(***************************************************************************)

TransportIdle ==
    /\ store = NoStore
    /\ storedFor = NoStore
    /\ nreq = 0
    /\ pc = [ p \in Procs |-> "idle" ]
    /\ req = [ p \in Procs |-> NoReq ]
    /\ lk = [ p \in Procs |-> NoLk ]
    /\ out = [ p \in Procs |-> NoOut ]
    /\ body = [ p \in Procs |-> NoBody ]
    /\ pend = [ p \in Procs |-> NoPend ]

\* A Transport over an empty cache, as NewTransport returns it.
Init ==
    /\ cfg \in { c.name : c \in Configs }
    /\ TransportIdle
    /\ kin = NoKin
    /\ kout = NoKout
    /\ rd = NoRd

Next ==
    \/ \E p \in Procs : \E r \in Cfg.menu : Lookup(p, r)
    \/ \E p \in Procs : VaryLookup(p)
    \/ \E p \in Procs : ProcessCached(p)
    \/ \E p \in Procs : \E o \in Origin(req[p], Cfg) : Forward(p, o)
    \/ \E p \in Procs : \E crash \in BOOLEAN : Respond(p, crash)
    \/ \E p \in Procs : StorePut(p)
    \/ \E p \in Procs : \E lenp \in 1..MaxBuf :
          \E o \in StreamOutcomes(body[p], lenp) : Read(p, lenp, o)
    \/ \E p \in Procs : Release(p)

Spec == Init /\ [][Next]_vars

\* Two requests and a list of header names for the key functions.
InitKey ==
    /\ cfg = CfgVary.name
    /\ TransportIdle
    /\ kin \in { [ op |-> "pair", r1 |-> r1, r2 |-> r2, names |-> names ] :
                    r1 \in KeyRequests, r2 \in KeyRequests, names \in NameLists }
    /\ kout = NoKout
    /\ rd = NoRd

NextKey == KeyCall

SpecKey == InitKey /\ [][NextKey]_vars

\* A CachingReadCloser over a stream of up to MaxLen bytes.
InitRead ==
    /\ cfg = CfgVary.name
    /\ TransportIdle
    /\ kin = NoKin
    /\ kout = NoKout
    /\ rd \in { NewRd(n) : n \in 0..MaxLen }

NextRead ==
    \/ \E lenp \in 1..MaxBuf : \E o \in StreamOutcomes(rd, lenp) : RdRead(lenp, o)
    \/ \E res \in { "nil", "ERR" } : RdClose(res)

SpecRead == InitRead /\ [][NextRead]_vars

\* A response with any set of directives and a request, for canStore.
InitCanStore ==
    /\ cfg = CfgVary.name
    /\ TransportIdle
    /\ kin \in { [ op |-> "canStore", rep |-> Response(status, NoHeader, cc, <<>>, 0),
                   r |-> r, isPublic |-> isPublic ] :
                    status \in StoreStatuses, cc \in SUBSET Directives,
                    r \in StoreRequests, isPublic \in BOOLEAN }
    /\ kout = NoKout
    /\ rd = NoRd

NextCanStore == CanStoreCall

SpecCanStore == InitCanStore /\ [][NextCanStore]_vars

\* Caller c1 in RoundTrip at line 176, about to call cacheResponse with the
\* response o the underlying transport returned for its request r after a
\* lookup that found nothing; meanwhile another caller may have written an
\* entry under the same key (had).
Responding(r, o, had) ==
    LET key == cacheKeyWithHeaders(r, Cfg.CacheKeyHeaders)
        entry == DumpResponse(Response(200, NoHeader, {}, OriginBody, -1),
                              OriginBody, FALSE)
    IN  /\ nreq = 1
        /\ body = [ p \in Procs |-> NoBody ]
        /\ pend = [ p \in Procs |-> NoPend ]
        /\ pc = [ p \in Procs |-> IF p = "c1" THEN "respond" ELSE "idle" ]
        /\ req = [ p \in Procs |-> IF p = "c1" THEN r ELSE NoReq ]
        /\ lk = [ p \in Procs |->
                    IF p = "c1"
                    THEN [ NoLk EXCEPT !.cacheKey = key, !.cacheable = Cacheable(r) ]
                    ELSE NoLk ]
        /\ out = [ p \in Procs |->
                     IF p = "c1" THEN [ NoOut EXCEPT !.rep = o, !.fwd = TRUE ]
                     ELSE NoOut ]
        /\ store = IF had THEN Put(NoStore, key, entry) ELSE NoStore
        /\ storedFor = IF had THEN Put(NoStore, key, r) ELSE NoStore

InitResp ==
    /\ cfg \in { c.name : c \in StoreConfigs }
    /\ kin = NoKin
    /\ kout = NoKout
    /\ rd = NoRd
    /\ \E r \in StoreMenu : \E o \in OriginAny(r, Cfg) : \E had \in BOOLEAN :
          Responding(r, o, had)

NextResp ==
    \/ \E p \in Procs : \E crash \in BOOLEAN : Respond(p, crash)
    \/ \E p \in Procs : StorePut(p)
    \/ \E p \in Procs : \E lenp \in 1..MaxBuf :
          \E o \in StreamOutcomes(body[p], lenp) : Read(p, lenp, o)
    \/ \E p \in Procs : Release(p)

SpecResp == InitResp /\ [][NextResp]_vars

\* A Transport over an empty cache whose callers request one language
\* variant, whole and by range.
InitStale ==
    /\ cfg = CfgStale.name
    /\ TransportIdle
    /\ kin = NoKin
    /\ kout = NoKout
    /\ rd = NoRd

SpecStale == InitStale /\ [][Next]_vars

\* A request, a list of names and a variant of the list for the key
\* functions.
InitList ==
    /\ cfg = CfgVary.name
    /\ TransportIdle
    /\ kin \in { [ op |-> "list", r |-> r, names |-> u[1], names2 |-> u[2] ] :
                    r \in ListRequests, u \in ListPairs }
    /\ kout = NoKout
    /\ rd = NoRd

NextList == ListCall

SpecList == InitList /\ [][NextList]_vars

\* Two header values that are the same list of items, spaced differently.
InitNorm ==
    /\ cfg = CfgVary.name
    /\ TransportIdle
    /\ kin \in { [ op |-> "norm", v1 |-> t[1], v2 |-> t[2] ] :
                    t \in { u \in NormValues \X NormValues : Items(u[1]) = Items(u[2]) } }
    /\ kout = NoKout
    /\ rd = NoRd

NextNorm == NormalizeCall

SpecNorm == InitNorm /\ [][NextNorm]_vars

\* A Transport without a Cache: RoundTrip gets no further than its first
\* use of t.Cache.
InitNoCache ==
    /\ cfg = CfgNoCache.name
    /\ TransportIdle
    /\ kin = NoKin
    /\ kout = NoKout
    /\ rd = NoRd

NextNoCache ==
    \/ \E p \in Procs : \E r \in Cfg.menu : Lookup(p, r)
    \/ \E p \in Procs : Release(p)

SpecNoCache == InitNoCache /\ [][NextNoCache]_vars

\* A Transport with ServerErrorsFromCache set, over an empty cache.
InitErrors ==
    /\ cfg = CfgErrors.name
    /\ TransportIdle
    /\ kin = NoKin
    /\ kout = NoKout
    /\ rd = NoRd

SpecErrors == InitErrors /\ [][Next]_vars

\* A Transport over an empty cache whose origin sends an ETag.
InitETag ==
    /\ cfg = CfgETag.name
    /\ TransportIdle
    /\ kin = NoKin
    /\ kout = NoKout
    /\ rd = NoRd

SpecETag == InitETag /\ [][Next]_vars

\* As InitResp, with requests and responses whose Cache-Control header may
\* fail to parse, on a private and on a shared cache without ShouldCache.
InitParse ==
    /\ cfg \in { "private-nil", "shared-nil" }
    /\ kin = NoKin
    /\ kout = NoKout
    /\ rd = NoRd
    /\ \E r \in ParseMenu : \E o \in OriginParse(r, Cfg) : \E had \in BOOLEAN :
          Responding(r, o, had)

SpecParse == InitParse /\ [][NextResp]_vars

\* As InitResp, for requests with and without Accept-Language and responses
\* with and without Vary, with Vary separation and without.
InitKeys ==
    /\ cfg \in { CfgSep.name, CfgNoSep.name }
    /\ kin = NoKin
    /\ kout = NoKout
    /\ rd = NoRd
    /\ \E r \in VaryMenu : \E o \in OriginVary(r, Cfg) : \E had \in BOOLEAN :
          Responding(r, o, had)

SpecKeys == InitKeys /\ [][NextResp]_vars

\* A Transport over an empty cache whose origin answers with
\* Vary: accept-language, *.
InitMarkers ==
    /\ cfg = CfgMarkers.name
    /\ TransportIdle
    /\ kin = NoKin
    /\ kout = NoKout
    /\ rd = NoRd

SpecMarkers == InitMarkers /\ [][Next]_vars

\* A response, a key and a cache that is empty or holds an older entry
\* under the key, for Transport.store; the answer to a HEAD request has no
\* body.
InitStore ==
    /\ cfg = CfgVary.name
    /\ TransportIdle
    /\ kin \in { [ op |-> "store", rep |-> o, toHead |-> toHead, key |-> URL,
                   cache |-> IF had
                             THEN Put(NoStore, URL,
                                      DumpResponse(Response(301, NoHeader, {}, <<>>, 0),
                                                   <<>>, FALSE))
                             ELSE NoStore ] :
                    o \in StoreResponses, had \in BOOLEAN, toHead \in BOOLEAN }
    /\ kin.toHead => kin.rep.body = <<>>
    /\ kout = NoKout
    /\ rd = NoRd

NextStore == StoreTwiceCall

SpecStore == InitStore /\ [][NextStore]_vars

\* A backend after construction, for any sequence of calls.
InitBackend ==
    /\ cfg = CfgVary.name
    /\ TransportIdle
    /\ kin \in { [ op |-> "backend", backend |-> b ] : b \in Backends }
    /\ kout = NewBackend
    /\ rd = NoRd

NextBackend ==
    \E key \in BackendKeys, ioerr \in IOErrs :
        \/ BackendGet(key, ioerr)
        \/ \E val \in BackendValues : BackendPut(key, val, ioerr)
        \/ BackendDel(key, ioerr)
        \/ BackendRm(key)

SpecBackend == InitBackend /\ [][NextBackend]_vars

\* Goroutines calling one zero InMemoryCache.
InitRace ==
    /\ cfg = CfgVary.name
    /\ TransportIdle
    /\ kin = [ op |-> "race" ]
    /\ kout = NewShared
    /\ rd = NoRd

NextRace ==
    \E p \in Procs :
        \/ \E key \in BackendKeys :
              \/ \E call \in { "Get", "Rm", "Del" } : Invoke(p, call, key, Nil)
              \/ \E val \in BackendValues : Invoke(p, "Put", key, val)
        \/ Acquire(p)
        \/ Operate(p)
        \/ Unlock(p)
        \/ Return(p)

SpecRace == InitRace /\ [][NextRace]_vars

\* A Transport over a cache in which the entry of an earlier request r was
\* replaced by bytes that are no response: the entry under its key, or the
\* one under its Vary-augmented key with the entry under its key intact.
InitCorrupt ==
    /\ cfg = CfgMarkers.name
    /\ nreq = 0
    /\ pc = [ p \in Procs |-> "idle" ]
    /\ req = [ p \in Procs |-> NoReq ]
    /\ lk = [ p \in Procs |-> NoLk ]
    /\ out = [ p \in Procs |-> NoOut ]
    /\ body = [ p \in Procs |-> NoBody ]
    /\ pend = [ p \in Procs |-> NoPend ]
    /\ kin = NoKin
    /\ kout = NoKout
    /\ rd = NoRd
    /\ \E r \in Cfg.menu : \E under \in { "key", "vary key" } :
          LET key == cacheKeyWithHeaders(r, Cfg.CacheKeyHeaders)
              rep == storeVaryHeaders(Response(200, Cfg.originHeader, {}, <<>>, 0), r)
              varyKey == cacheKeyWithVary(r, allHeaderCSVs(rep.header, Vary))
              entry == DumpResponse(rep, <<>>, TRUE)
          IN  /\ store = IF under = "key" THEN Put(NoStore, key, Garbage)
                         ELSE Put(Put(NoStore, key, entry), varyKey, Garbage)
              /\ storedFor = [ k \in DOMAIN store |-> r ]

SpecCorrupt == InitCorrupt /\ [][Next]_vars

\* Caller c1 has obtained the origin's response to its GET and is about to
\* call cacheResponse; the cache holds an older entry under the key; from
\* now on the callers only send GET requests with a Range header, which are
\* not cacheable and delete the entry under the same key.
InitDeferred ==
    /\ cfg = CfgRange.name
    /\ kin = NoKin
    /\ kout = NoKout
    /\ rd = NoRd
    /\ \E o \in Origin(Request(MethodGet, NoHeader), Cfg) \ { [ kind |-> "error" ] } :
          Responding(Request(MethodGet, NoHeader), o, TRUE)

NextDeferred ==
    \/ \E p \in Procs : \E r \in Cfg.menu : Lookup(p, r)
    \/ \E p \in Procs : \E o \in Origin(req[p], Cfg) : Forward(p, o)
    \/ \E p \in Procs : \E crash \in BOOLEAN : Respond(p, crash)
    \/ \E p \in Procs : StorePut(p)
    \/ \E p \in Procs : \E lenp \in 1..MaxBuf :
          \E o \in StreamOutcomes(body[p], lenp) : Read(p, lenp, o)
    \/ \E p \in Procs : Release(p)

SpecDeferred == InitDeferred /\ [][NextDeferred]_vars

\* Any value of up to MaxValue characters for normalize.
InitIdem ==
    /\ cfg = CfgVary.name
    /\ TransportIdle
    /\ kin \in { [ op |-> "idem", x |-> x ] :
                    x \in UNION { [ 1..n -> IdemChars ] : n \in 0..MaxValue } }
    /\ kout = NoKout
    /\ rd = NoRd

NextIdem == NormalizeTwiceCall

SpecIdem == InitIdem /\ [][NextIdem]_vars

(***************************************************************************)
(* Claims                                                                  *)
(***************************************************************************)

\* The header the documentation of MarkCachedResponses names.
XFromCache == << "X", "-", "F", "r", "o", "m", "-", "C", "a", "c", "h", "e" >>

\* RoundTrip has selected its cached candidate (line 157 is reached with
\* cached non-nil).
Selected(p) == pc[p] = "call" /\ Hit(lk[p])

\* C1: a GET that finds the entry an identical earlier GET stored, complete
\* body included, returns a non-nil response equal to the stored one, with
\* the X-From-Cache marker when MarkCachedResponses is set, and the
\* underlying transport is not called.
C1_SecondGetServedFromStore ==
    \A p \in Procs :
        ( /\ pc[p] = "done"
          /\ req[p].method = MethodGet
          /\ Hit(lk[p])
          /\ lk[p].cachedFor = req[p]
          /\ lk[p].cached.body = OriginBody )
        => /\ ~out[p].fwd
           /\ ~out[p].panic
           /\ out[p].err = "nil"
           /\ out[p].rep # Nil
           /\ out[p].rep.status = lk[p].cached.status
           /\ out[p].rep.body = lk[p].cached.body
           /\ (Cfg.MarkCachedResponses => HeaderGet(out[p].rep.header, XFromCache) # <<>>)

\* The names of the Vary list of a response, canonical, without "*".
VaryNames(rep) ==
    { CanonicalHeaderKey(n) : n \in Range(allHeaderCSVs(rep.header, Vary)) } \ { << "*" >> }

\* C2: the cached candidate RoundTrip selects carries, for every header of
\* its Vary list, an X-Varied marker equal to the current request's
\* normalized value of that header, also when the lookup under the
\* Vary-augmented key missed.
C2_CandidateMatchesVary ==
    \A p \in Procs :
        Selected(p) =>
            \A n \in VaryNames(lk[p].cached) :
                HeaderGet(lk[p].cached.header, XVariedPrefix \o n)
                    = normalize(HeaderGet(req[p].header, n))

\* The RoundTrip call of caller p is over without a transport error (it has
\* returned, or it has panicked in cacheResponse on a nil response) and, when
\* there is a body, the caller has read it to io.EOF and the writes that
\* triggered are done.
Settled(p) ==
    /\ pc[p] = "done"
    /\ out[p].err = "nil"
    /\ pend[p].keys = <<>>
    /\ body[p].on => body[p].eof

\* C3: with the origin answering Vary: Accept-Language, two GETs for the
\* same URL that differ only in Accept-Language each have their own
\* representation stored under their Vary-augmented key.
C3_EachVariantStored ==
    \A p, q \in Procs :
        ( /\ cfg = "vary"
          /\ Settled(p) /\ Settled(q)
          /\ req[p].method = MethodGet /\ req[q].method = MethodGet
          /\ req[p].url = req[q].url
          /\ HeaderGet(req[p].header, AcceptLanguage) # HeaderGet(req[q].header, AcceptLanguage) )
        => \A c \in { p, q } :
              LET k == cacheKeyWithVary(req[c], << AcceptLanguage >>)
              IN  /\ k \in DOMAIN store
                  /\ HeaderGet(store[k].header, XVariedPrefix \o AcceptLanguage)
                        = normalize(HeaderGet(req[c].header, AcceptLanguage))

\* C4: the cached candidate selected for a request was stored for a request
\* with the same normalized value of every header of CacheKeyHeaders.
C4_CandidateSameKeyHeaders ==
    \A p \in Procs :
        Selected(p) =>
            \A i \in 1..Len(Cfg.CacheKeyHeaders) :
                normalize(HeaderGet(lk[p].cachedFor.header, Cfg.CacheKeyHeaders[i]))
                    = normalize(HeaderGet(req[p].header, Cfg.CacheKeyHeaders[i]))

\* Two requests agree on method, URL and the normalized value of every
\* listed header (an absent header counts as empty).
SameKeyFields(r1, r2, names) ==
    /\ r1.method = r2.method
    /\ r1.url = r2.url
    /\ \A i \in 1..Len(names) :
          normalize(HeaderGet(r1.header, names[i])) = normalize(HeaderGet(r2.header, names[i]))

\* C5: cacheKeyWithHeaders gives two requests the same key if and only if
\* they agree on method, URL and the normalized value of every listed header,
\* whatever characters the values hold.
C5_KeyIffSameFields ==
    kout.op = "pair" =>
        ((kout.hdr1 = kout.hdr2) <=> SameKeyFields(kin.r1, kin.r2, kin.names))

\* C6: every Put made for a GET response whose body was read without a read
\* error leaves in the store a value holding the complete body of the origin
\* response.
C6_StoredBodiesComplete ==
    [][ \A p \in Procs :
          ( /\ pend[p].keys # <<>>
            /\ pend'[p] # pend[p]
            /\ req[p].method = MethodGet
            /\ ~body[p].failed )
          => store'[Head(pend[p].keys)].body = OriginBody ]_vars

\* C7: over Read calls of which none returned a read error, OnEOF is invoked
\* at most once at any time, and exactly once when the reads have reached
\* end-of-stream.
C7_OnEOFExactlyOnce ==
    ( rd.on /\ ~rd.failed ) =>
        /\ Len(rd.calls) <= 1
        /\ rd.eof => Len(rd.calls) = 1

\* C8: over Read calls of which none returned a read error, every reader
\* OnEOF receives yields the full content of the stream.
C8_OnEOFGetsFullContent ==
    ( rd.on /\ ~rd.failed ) => \A i \in 1..Len(rd.calls) : rd.calls[i] = rd.full

\* The key under which the response to a GET with the headers of r is
\* stored.
GetKey(r) ==
    cacheKeyWithHeaders([ r EXCEPT !.method = MethodGet ], Cfg.CacheKeyHeaders)

\* C9: when RoundTrip returns the response to a successful POST, the store
\* holds no entry for GET on the same URL.
C9_PostInvalidatesGet ==
    [][ \A p \in Procs :
          ( /\ pc[p] = "respond"
            /\ req[p].method = MethodPost
            /\ pc'[p] = "done"
            /\ out'[p].err = "nil" )
          => GetKey(req[p]) \notin DOMAIN store' ]_vars

StoreRules ==
    LET cc == kin.rep.cc
        understood == kin.rep.status \in { 200, 203, 204, 206, 300, 301, 404, 405, 410, 414, 501 }
        auth == HeaderGet(kin.r.header, Authorization) # <<>>
    IN  << [ hit |-> "must-understand" \in cc /\ ~understood, res |-> FALSE ],
           [ hit |-> "must-understand" \notin cc
                     /\ ("no-store" \in cc \/ "no-store" \in kin.r.cc), res |-> FALSE ],
           [ hit |-> kin.isPublic /\ auth
                     /\ cc \cap { "public", "must-revalidate", "s-maxage" } = {}, res |-> FALSE ],
           [ hit |-> kin.isPublic /\ "private" \in cc, res |-> FALSE ],
           [ hit |-> TRUE, res |-> TRUE ] >>

FirstMatch(rules) ==
    rules[CHOOSE i \in 1..Len(rules) : rules[i].hit /\ \A j \in 1..(i - 1) : ~rules[j].hit].res

\* C11: canStore returns the result of the first rule that applies, of
\* (1) must-understand with a status outside the understood set: false,
\* (2) no must-understand and no-store on the response or the request: false,
\* (3) shared mode, Authorization and none of public, must-revalidate,
\* s-maxage: false, (4) shared mode and private: false, (5) true.
C11_CanStoreFirstRule ==
    kout.op = "canStore" => kout.ok = FirstMatch(StoreRules)

\* canStore has accepted a 404 response with must-understand and no-store to
\* a request with Authorization in shared mode, the response being public.
C11_Witness ==
    /\ kout.op = "canStore"
    /\ kin.rep.status = 404
    /\ kin.rep.cc = { "must-understand", "no-store", "public" }
    /\ kin.isPublic
    /\ HeaderGet(kin.r.header, Authorization) # <<>>
    /\ kout.ok

\* The response RoundTrip hands to cacheResponse for caller p is to be stored:
\* the request is cache-eligible, canStore accepts, and the status is in the
\* understood set or the ShouldCache hook is set and returns true.
Storable(p) ==
    /\ req[p].method \in { MethodGet, MethodHead }
    /\ HeaderGet(req[p].header, RangeHeader) = <<>>
    /\ canStore(out[p].rep, req[p], req[p].cc, out[p].rep.cc, Cfg.IsPublicCache)
    /\ \/ out[p].rep.status \in { 200, 203, 204, 206, 300, 301, 404, 405, 410, 414, 501 }
       \/ Cfg.ShouldCache = "true"

\* cacheResponse has arranged a store write for caller p: the body is
\* wrapped (GET) or Transport.store has the dump to put (other methods).
Arranged(p) == body[p].on \/ pend[p].keys # <<>>

C13_OnlyOKStoredByDefault ==
    Cfg.ShouldCache = "nil" => \A k \in DOMAIN store : store[k].status = 200

\* The Vary-augmented key of the request of caller p for the response it
\* received.
VaryKeyOf(p) ==
    cacheKeyWithVary(req[p], allHeaderCSVs(out[p].rep.header, Vary))

\* C14: when RoundTrip returns a response that is not storable, the store
\* holds no entry under the request's cache key nor under its
\* Vary-augmented key.
C14_NoDanglingEntry ==
    [][ \A p \in Procs :
          ( /\ pc[p] = "respond"
            /\ pc'[p] = "done"
            /\ out[p].rep # Nil
            /\ ~Storable(p) )
          => /\ lk[p].cacheKey \notin DOMAIN store'
             /\ VaryKeyOf(p) \notin DOMAIN store' ]_vars

\* Request r2 is request r1 with header h added, holding one empty value.
AddsEmpty(r1, r2, h) ==
    /\ r1.method = r2.method
    /\ r1.url = r2.url
    /\ h \notin DOMAIN r1.header
    /\ DOMAIN r2.header = DOMAIN r1.header \cup { h }
    /\ r2.header[h] = << <<>> >>
    /\ \A n \in DOMAIN r1.header : r2.header[n] = r1.header[n]

\* C15: for a Vary list naming header h, cacheKeyWithVary gives different
\* keys to a request without h and to the same request with h present and
\* empty.
C15_VaryAbsentVsEmpty ==
    kout.op = "pair" =>
        \A i \in 1..Len(kin.names) :
            AddsEmpty(kin.r1, kin.r2, kin.names[i]) => kout.vary1 # kout.vary2

\* C16: cacheKeyWithHeaders and cacheKeyWithVary return the same key for a
\* list of header names and for every reordering of it with the names in
\* any letter case.
C16_KeyOrderAndCaseIndependent ==
    kout.op = "list" => kout.hdr = kout.hdr2 /\ kout.vary = kout.vary2

\* The key functions were applied to [X-A, B] and to [b, x-a] for a request
\* carrying both headers.
C16_Witness ==
    /\ kout.op = "list"
    /\ kin.names = << XA, HB >>
    /\ kin.names2 = << << "b" >>, << "x", "-", "a" >> >>
    /\ HeaderGet(kin.r.header, XA) = << "a" >>
    /\ HeaderGet(kin.r.header, HB) = << " ", "b" >>
    /\ kout.hdr # kout.base

\* C17: cacheKey is the URL for GET and "<METHOD> <url>" for every other
\* method, whatever the headers, and two requests have the same base key
\* exactly when they have the same method and the same URL.
C17_BaseKeyMethodAndURL ==
    kout.op = "pair" =>
        /\ kout.base1 = IF kin.r1.method = << "G", "E", "T" >>
                        THEN kin.r1.url
                        ELSE kin.r1.method \o << " " >> \o kin.r1.url
        /\ (kout.base1 = kout.base2)
              <=> (kin.r1.method = kin.r2.method /\ kin.r1.url = kin.r2.url)

\* cacheKey was applied to a GET and a HEAD for the same URL, carrying
\* different headers.
C17_Witness ==
    /\ kout.op = "pair"
    /\ kin.r1.method = MethodGet
    /\ kin.r2.method = MethodHead
    /\ kin.r1.url = kin.r2.url
    /\ kin.r1.header # kin.r2.header
    /\ kout.base1 # kout.base2

\* C18: normalize maps two values that are the same comma-separated list of
\* items, differing only in the white space around the commas and at the
\* ends, to the same string.
C18_NormalizeListSpacing ==
    kout.op = "norm" => kout.n1 = kout.n2

\* The part "Name:value" of the i-th listed name for the request in kin:
\* canonical name, normalized value.
PartOf(i) ==
    CanonicalHeaderKey(kin.names[i])
        \o << ":" >> \o normalize(HeaderGet(kin.r.header, CanonicalHeaderKey(kin.names[i])))

\* key is base followed by sep and the "|"-joined parts of the listed names
\* with index in idx, each once, in lexicographic order; base when idx is
\* empty.
IsKeyOf(key, base, sep, idx) ==
    IF idx = {} THEN key = base
    ELSE \E f \in [ 1..Cardinality(idx) -> idx ] :
            /\ \A j, k \in 1..Cardinality(idx) : f[j] = f[k] => j = k
            /\ \A k \in 1..(Cardinality(idx) - 1) : ~StrLess(PartOf(f[k + 1]), PartOf(f[k]))
            /\ key = base \o sep
                        \o Join([ k \in 1..Cardinality(idx) |-> PartOf(f[k]) ], << "|" >>)

\* C19: cacheKeyWithHeaders returns the base key when no listed header has
\* a non-empty normalized value, and otherwise the base key, "|" and the
\* sorted, "|"-joined parts "Name:value" of exactly the listed headers whose
\* normalized value is non-empty.
C19_HeaderKeyForm ==
    kout.op = "list" =>
        IsKeyOf(kout.hdr, kout.base, << "|" >>,
                { i \in 1..Len(kin.names) :
                    normalize(HeaderGet(kin.r.header, CanonicalHeaderKey(kin.names[i]))) # <<>> })

\* cacheKeyWithHeaders was applied to [x-a, b] for GET /r with X-A: "a" and
\* B: " b": the parts are sorted, the names canonical and the value of B
\* normalized.
C19_Witness ==
    /\ kout.op = "list"
    /\ kin.r.method = MethodGet
    /\ kin.names = << << "x", "-", "a" >>, << "b" >> >>
    /\ kin.r.header = Hdr2(XA, << "a" >>, HB, << " ", "b" >>)
    /\ kout.hdr = << "/", "r", "|", "B", ":", "b", "|", "X", "-", "A", ":", "a" >>

\* C20: cacheKeyWithVary returns the base key when no listed name other
\* than "*" and the empty name remains, and otherwise the base key, "|vary:"
\* and the sorted, "|"-joined parts "Name:value" of every listed name that is
\* neither "*" nor empty, the value being empty when the request has none.
C20_VaryKeyForm ==
    kout.op = "list" =>
        IsKeyOf(kout.vary, kout.base, << "|", "v", "a", "r", "y", ":" >>,
                { i \in 1..Len(kin.names) :
                    CanonicalHeaderKey(kin.names[i]) \notin { <<>>, << "*" >> } })

\* cacheKeyWithVary was applied to [*, x-a] for HEAD /r with B: " b" and no
\* X-A: the wildcard gives no part, the absent X-A gives the part "X-A:".
C20_Witness ==
    /\ kout.op = "list"
    /\ kin.r.method = MethodHead
    /\ kin.names = << << "*" >>, << "x", "-", "a" >> >>
    /\ kin.r.header = Hdr(HB, << " ", "b" >>)
    /\ kout.vary = << "H", "E", "A", "D", " ", "/", "r", "|", "v", "a", "r", "y", ":",
                      "X", "-", "A", ":" >>

\* C21: on a Transport whose Cache is nil no RoundTrip call crashes, and
\* every call that is over has forwarded its request and holds the origin's
\* response or the transport's error, the store untouched.
C21_NilCacheForwards ==
    Cfg.Cache = "nil" =>
        \A p \in Procs :
            /\ ~out[p].panic
            /\ pc[p] = "done" => out[p].fwd /\ (out[p].rep # Nil \/ out[p].err # "nil")

\* C22: with ServerErrorsFromCache set, a RoundTrip call that found a cached
\* entry for its request returns a response and no error, whether or not the
\* origin can be reached; a call that found none and whose forwarded call
\* failed returns the forwarding error.
C22_StaleOnError ==
    \A p \in Procs :
        pc[p] = "done" =>
            /\ ( Cfg.ServerErrorsFromCache /\ Hit(lk[p]) )
               => ( out[p].rep # Nil /\ out[p].err = "nil" /\ ~out[p].panic )
            /\ ( ~Hit(lk[p]) /\ out[p].fwd /\ out[p].rep = Nil ) => out[p].err = "error"

\* C23: a RoundTrip call that found a cached entry carrying an ETag forwards
\* its request with If-None-Match set to that ETag and returns, without
\* error, a response with the stored body, the entry staying under its key.
C23_RevalidatesWithETag ==
    \A p \in Procs :
        ( /\ pc[p] = "done"
          /\ Hit(lk[p])
          /\ HeaderGet(lk[p].cached.header, ETag) # <<>> )
        => /\ out[p].fwd
           /\ HeaderGet(Forwarded(p).header, IfNoneMatch)
                 = HeaderGet(lk[p].cached.header, ETag)
           /\ out[p].err = "nil"
           /\ out[p].rep # Nil
           /\ out[p].rep.body = lk[p].cached.body

\* C24: when cacheResponse is handed a response whose Cache-Control
\* directives, or whose request's, cannot be parsed, RoundTrip returns that
\* response without error and arranges no store write for it.
C24_UnparsedNotStored ==
    [][ \A p \in Procs :
          ( /\ pc[p] = "respond" /\ pc'[p] # "respond"
            /\ out[p].rep # Nil
            /\ "malformed" \in req[p].cc \cup out[p].rep.cc )
          => /\ out'[p].err = "nil"
             /\ ~out'[p].panic
             /\ out'[p].rep # Nil
             /\ ~Arranged(p)' ]_vars

\* The key set of the response caller p received: the cache key and, when
\* Vary separation is enabled, the response declares Vary headers and the
\* Vary-augmented key differs from the cache key, the Vary-augmented key.
KeySet(p) ==
    LET key == cacheKeyWithHeaders(req[p], Cfg.CacheKeyHeaders)
    IN  IF /\ ~Cfg.DisableVaryHeaderSeparation
           /\ allHeaderCSVs(out[p].rep.header, Vary) # <<>>
           /\ VaryKeyOf(p) # key
        THEN { key, VaryKeyOf(p) }
        ELSE { key }

\* C25: every store made for a response writes one value under every key
\* of the response's key set and under no other key: each Put of a store
\* writes the value of that store under a key of the set, and when a store is
\* complete all keys of the set hold the same bytes. With
\* DisableVaryHeaderSeparation the set is the cache key alone.
C25_OneValueUnderKeySet ==
    [][ \A p \in Procs :
          /\ ( pend[p].keys = <<>> /\ pend'[p].keys # <<>> )
             => Range(pend'[p].keys) = KeySet(p)
          /\ ( pend[p].keys # <<>> /\ pend'[p] # pend[p] )
             => /\ store' = Put(store, Head(pend[p].keys), pend[p].val)
                /\ pend'[p].keys # <<>> => pend'[p].val = pend[p].val
          /\ ( pend[p].keys # <<>> /\ pend'[p].keys = <<>> )
             => \A k \in KeySet(p) : k \in DOMAIN store' /\ store'[k] = pend[p].val ]_vars

\* A HEAD response with Vary: accept-language, * was stored for a request
\* with Accept-Language: fr: the same bytes lie under both keys.
C25_Witness ==
    /\ cfg = "sep"
    /\ pc["c1"] = "done"
    /\ req["c1"].method = MethodHead
    /\ DOMAIN store = { << "H", "E", "A", "D", " ", "/", "r" >>,
                        << "H", "E", "A", "D", " ", "/", "r", "|", "v", "a", "r", "y", ":",
                           "A", "c", "c", "e", "p", "t", "-",
                           "L", "a", "n", "g", "u", "a", "g", "e", ":", "f", "r" >> }
    /\ \A k, l \in DOMAIN store : store[k] = store[l]
    /\ allHeaderCSVs(out["c1"].rep.header, Vary) = << LowerName(AcceptLanguage), << "*" >> >>

\* C26: every entry of the store carries the Vary header of the origin's
\* response and, for each name of that Vary list other than "*", exactly one
\* header X-Varied-<canonical name> holding the normalized value of that
\* header on the request the entry was stored for (empty when the request
\* had none).
C26_EntriesCarryVaryMarkers ==
    \A k \in DOMAIN store :
        /\ Vary \in DOMAIN store[k].header
        /\ store[k].header[Vary] = Cfg.originHeader[Vary]
        /\ \A n \in VaryNames(store[k]) :
              /\ XVariedPrefix \o n \in DOMAIN store[k].header
              /\ store[k].header[XVariedPrefix \o n]
                    = << normalize(HeaderGet(storedFor[k].header, n)) >>

\* The response to the GET with Accept-Language: " fr" lies under its
\* Vary-augmented key with the marker X-Varied-Accept-Language: fr, and the
\* response to the HEAD without Accept-Language under its own with an empty
\* marker.
C26_Witness ==
    LET frKey == URL \o << "|", "v", "a", "r", "y", ":" >> \o AcceptLanguage \o << ":" >> \o Fr
        noKey == MethodHead \o << " " >> \o URL
                    \o << "|", "v", "a", "r", "y", ":" >> \o AcceptLanguage \o << ":" >>
    IN  /\ cfg = "markers"
        /\ { frKey, noKey } \subseteq DOMAIN store
        /\ HeaderGet(storedFor[frKey].header, AcceptLanguage) = << " " >> \o Fr
        /\ store[frKey].header[XVariedPrefix \o AcceptLanguage] = << Fr >>
        /\ store[noKey].header[XVariedPrefix \o AcceptLanguage] = << <<>> >>

\* Request r is cache-eligible: GET or HEAD, without a Range header.
Eligible(r) ==
    /\ r.method \in { << "G", "E", "T" >>, << "H", "E", "A", "D" >> }
    /\ (RangeHeader \in DOMAIN r.header => r.header[RangeHeader] \in { <<>>, << <<>> >> })

\* C27: a RoundTrip call for a request that is not cache-eligible holds no
\* cached response (no Get was made for it) and has no store write arranged
\* or under way, and every entry of the store was stored for a GET or HEAD
\* request without Range.
C27_OnlyEligibleTouchStore ==
    /\ \A p \in Procs :
          ( pc[p] # "idle" /\ ~Eligible(req[p]) )
          => ( lk[p].cached = Nil /\ ~body[p].on /\ pend[p].keys = <<>> )
    /\ \A k \in DOMAIN store : Eligible(storedFor[k])

\* A GET with a Range header found an entry under its key, did not read it,
\* and RoundTrip has returned the origin's response for it while the other
\* caller's GET has its response stored.
C27_Witness ==
    \E p, q \in Procs :
        /\ pc[p] = "done"
        /\ HeaderGet(req[p].header, RangeHeader) # <<>>
        /\ lk[p].had
        /\ lk[p].cached = Nil
        /\ out[p].rep # Nil
        /\ req[q].method = MethodGet
        /\ URL \in DOMAIN store

\* C28: RoundTrip does not return a storable response to a HEAD request
\* before the Puts of its store are done, and every Put made for a GET
\* response is made after RoundTrip has returned and after the caller's reads
\* of the body have reached end-of-stream.
C28_StoreTiming ==
    [][ \A p \in Procs :
          /\ ( /\ pc[p] = "respond" /\ pc'[p] = "done"
               /\ req[p].method = MethodHead
               /\ out[p].rep # Nil )
             => ~Storable(p)
          /\ ( pc[p] = "storing" /\ pc'[p] = "done" ) => pend'[p].keys = <<>>
          /\ ( /\ pend[p].keys # <<>> /\ pend'[p] # pend[p]
               /\ req[p].method = MethodGet )
             => ( pc[p] = "done" /\ body[p].eof ) ]_vars

\* C29: Close closes the wrapped stream whether or not end-of-stream was
\* reached and returns what the stream's Close returned, and the step
\* neither calls OnEOF nor changes the buffer; Read alone closes nothing.
C29_CloseOnlyCloses ==
    [][ /\ ( rd.on /\ rd'.ret # rd.ret )
           => /\ rd'.closed
              /\ rd'.ret = rd'.rclose
              /\ rd'.calls = rd.calls
              /\ rd'.buf = rd.buf
              /\ rd'.data = rd.data
        /\ ( rd.on /\ rd'.buf # rd.buf ) => ( ~rd'.closed /\ rd'.ret = "none" ) ]_vars

\* A CachingReadCloser was closed after a read that did not reach
\* end-of-stream: the stream is closed, its error was returned, bytes are
\* buffered and still unread, and OnEOF was never called.
C29_Witness ==
    /\ rd.on
    /\ rd.closed
    /\ rd.ret = "ERR"
    /\ ~rd.eof /\ ~rd.failed
    /\ rd.buf # <<>>
    /\ rd.data # <<>>
    /\ rd.calls = <<>>

\* C30: after Transport.store was called twice for the same response under
\* the same key, the bytes read back are the ones read back after the first
\* call, under that key alone, and when the dump succeeds they are that
\* response with its whole body.
C30_StoreIdempotent ==
    kout.op = "store" =>
        /\ kout.second = kout.first
        /\ kout.keys \subseteq { kin.key }
        /\ ( kin.toHead \/ kin.rep.cl \in { -1, Len(kin.rep.body) } )
           => /\ kout.first.kind = "dump"
              /\ kout.first.status = kin.rep.status
              /\ kout.first.header = kin.rep.header
              /\ kout.first.body = kin.rep.body

\* A 200 response with the body "xy" of unknown length was stored twice over
\* an older entry and read back whole.
C30_Witness ==
    /\ kout.op = "store"
    /\ kin.rep.cl = -1
    /\ ~kin.toHead
    /\ kin.cache # NoStore
    /\ kout.second.kind = "dump"
    /\ kout.second.status = 200
    /\ kout.second.body = << "x", "y" >>

\* C31: as long as the database has not failed, every Put, Del and Get on a
\* backend can be made, and a Get returns (v, true) when the latest Put or
\* Del on its key was Put(key, v) and (nil, false) otherwise.
C31_GetFollowsLastWrite ==
    ( kout.op = "backend" /\ ~kout.ioerr ) =>
        /\ ~kout.nomethod
        /\ kout.ret.call = "Get" =>
              /\ kout.ret.got.val = kout.last[kout.ret.key]
              /\ kout.ret.got.ok = ( kout.last[kout.ret.key] # Nil )

\* C32: on one InMemoryCache called by several goroutines, every Put, Get
\* and Del can be made, a writer is inside the map alone, and a Get called
\* after the delete of its key returned, with no Put on the key called
\* since, does not find the key.
C32_CallsAreAtomic ==
    kout.op = "race" =>
        /\ ~kout.nomethod
        /\ kout.writers # {} => Inside = kout.writers /\ Cardinality(Inside) = 1
        /\ ( kout.ret.call = "Get" /\ kout.ret.fresh ) => ~kout.ret.got.ok

\* C33: a call on the leveldb Cache during which the database fails returns
\* as the same call does without a failure: Get returns (nil, false), as it
\* does for a key that is not there, Put and Del return nothing, and the
\* database holds what it held before the call.
C33_IOFailureNotPropagated ==
    [][ ( kin.op = "backend" /\ kout'.calls = kout.calls + 1 /\ kout'.ret.ioerr ) =>
            /\ kout'.store = kout.store
            /\ kout'.nomethod = kout.nomethod
            /\ DOMAIN kout'.ret = IF kout'.ret.call = "Get"
                                  THEN { "call", "key", "ioerr", "got" }
                                  ELSE { "call", "key", "ioerr" }
            /\ kout'.ret.call = "Get" =>
                  /\ kout'.ret.got = [ val |-> Nil, ok |-> FALSE ]
                  /\ kout'.ret.got = LevelGet(NoStore, kout'.ret.key, FALSE) ]_vars

\* A Get of a key that is in the database failed and returned (nil, false),
\* after a Put had failed as well.
C33_Witness ==
    /\ kout.op = "backend"
    /\ kin.backend = "leveldb"
    /\ kout.ret.call = "Get"
    /\ kout.ret.ioerr
    /\ kout.ret.key \in DOMAIN kout.store
    /\ ~kout.ret.got.ok
    /\ \E k \in BackendKeys : kout.last[k] # Nil /\ k \notin DOMAIN kout.store

\* C34: the lookup of a cacheable request leaves the store as it is; when
\* the lookup found nothing and the underlying transport returns an error,
\* RoundTrip returns at once with a nil response and the error, the store as
\* it was; and a call returned that way has no Put left to make and no body
\* whose reading would make one.
C34_ForwardErrorLeavesStore ==
    [][ \A p \in Procs :
          /\ ( pc[p] = "idle" /\ pc'[p] # "idle" /\ lk'[p].cacheable ) => store' = store
          /\ ( pc[p] = "call" /\ pc'[p] # "call" /\ lk[p].cacheable /\ lk[p].cached = Nil
               /\ out'[p].err = "error" ) =>
                 /\ out'[p].fwd
                 /\ out'[p].rep = Nil
                 /\ pc'[p] = "done"
                 /\ store' = store
          /\ ( out[p].err = "error" /\ lk[p].cacheable ) =>
                 /\ pc[p] = "done"
                 /\ pend[p].keys = <<>>
                 /\ ~body[p].on
                 /\ pc'[p] \in { "done", "idle" } ]_vars

\* A HEAD request missed a cache that holds the entry of a GET, the
\* underlying transport failed, and RoundTrip returned the error.
C34_Witness ==
    \E p \in Procs :
        /\ pc[p] = "done"
        /\ req[p].method = MethodHead
        /\ lk[p].cacheable
        /\ lk[p].cached = Nil
        /\ out[p].fwd
        /\ out[p].err = "error"
        /\ out[p].rep = Nil
        /\ store # NoStore

\* C35: a RoundTrip whose lookup under the cache key found bytes that do not
\* parse has no candidate, is forwarded, and returns the origin's error or
\* the origin's response, never the parse error; one whose lookup under the
\* Vary-augmented key found such bytes keeps the entry under the cache key
\* as its candidate and does not return the parse error either.
C35_UnparsableIsMiss ==
    \A p \in Procs :
        /\ lk[p].err = "parse" =>
              /\ lk[p].cached = Nil
              /\ pc[p] \in { "call", "respond", "storing", "done" }
              /\ pc[p] # "call" =>
                    /\ out[p].fwd
                    /\ out[p].err \in { "nil", "error" }
                    /\ out[p].err = "error" => out[p].rep = Nil
                    /\ out[p].err = "nil" =>
                          \E o \in Origin(req[p], Cfg) :
                              /\ o.kind = "rep"
                              /\ out[p].rep.status = o.status
                              /\ out[p].rep.body = o.body
        /\ lk[p].varyErr = "parse" =>
              /\ lk[p].err = "nil"
              /\ lk[p].cacheKey = cacheKeyWithHeaders(req[p], Cfg.CacheKeyHeaders)
              /\ lk[p].cached # Nil
              /\ allHeaderCSVs(lk[p].cached.header, Vary) # <<>>
              /\ out[p].err # "parse"

\* A GET whose entry under the cache key does not parse was answered by the
\* origin and returned that response; another call found unparsable bytes
\* under its Vary-augmented key.
C35_Witness ==
    \E p \in Procs :
        /\ lk[p].err = "parse"
        /\ req[p].method = MethodGet
        /\ pc[p] = "done"
        /\ out[p].err = "nil"
        /\ out[p].rep # Nil
        /\ out[p].rep.status = 200

C35_WitnessVary ==
    \E p \in Procs :
        /\ lk[p].varyErr = "parse"
        /\ lk[p].cached # Nil
        /\ pc[p] = "call"

\* C36: with the response to a GET obtained and its body not read to the
\* end, and every later request one that deletes the entry under the GET's
\* key, the entry once deleted is not there again.
C36_DeleteNotUndone ==
    [][ URL \notin DOMAIN store => URL \notin DOMAIN store' ]_vars

\* C36, amended: each such delete leaves no entry under the key at the time
\* it is made, and an entry that is there again afterwards is the one the
\* deferred store of the GET puts from the bytes its caller has read.
C36_DeleteUndoneByDeferredStore ==
    [][ /\ \A q \in Procs :
              ( pc[q] = "idle" /\ pc'[q] # "idle" /\ ~lk'[q].cacheable ) =>
                  lk'[q].cacheKey \notin DOMAIN store'
        /\ \A q \in Procs :
              ( pc[q] = "respond" /\ pc'[q] # "respond" /\ ~lk[q].cacheable
                /\ ~out'[q].panic ) =>
                  lk[q].cacheKey \notin DOMAIN store'
        /\ ( URL \notin DOMAIN store /\ URL \in DOMAIN store' ) =>
              \E p \in Procs :
                  /\ req[p].method = MethodGet
                  /\ lk[p].cacheable
                  /\ body[p].on
                  /\ pend[p].keys # <<>>
                  /\ Head(pend[p].keys) = URL
                  /\ store'[URL] = DumpResponse(out[p].rep, body[p].buf, FALSE) ]_vars

\* Caller c2 has deleted the entry under the key and not gone on since, and
\* the entry of c1's GET, whose body was read to the end meanwhile, is there.
C36_Witness ==
    /\ pc["c2"] = "call"
    /\ ~lk["c2"].cacheable
    /\ lk["c2"].cacheKey = URL
    /\ lk["c2"].had
    /\ req["c1"].method = MethodGet
    /\ lk["c1"].cacheable
    /\ body["c1"].eof
    /\ URL \in DOMAIN store
    /\ store[URL].body = OriginBody

\* C37: a request whose method is not unsafe leaves the store as it is from
\* the start of RoundTrip until the underlying transport has answered.
C37_SafeMethodsKeepEntry ==
    [][ \A p \in Procs :
          ( /\ pc[p] \in { "idle", "varylookup", "call" }
            /\ pc'[p] # pc[p]
            /\ ~isUnsafeMethod(req'[p].method) ) =>
              ( lk'[p].cacheKey \in DOMAIN store => lk'[p].cacheKey \in DOMAIN store' ) ]_vars

\* C38: after every Read of a CachingReadCloser its buffer is what the Read
\* calls so far have handed to the caller, byte for byte and in order, and
\* with what is still unread it makes up the stream.
C38_BufferIsWhatWasRead ==
    rd.on =>
        /\ rd.buf = rd.got
        /\ rd.buf \o rd.data = rd.full

\* The first Read returned bytes without an error, the second returned
\* the rest together with a read error, and the buffer holds all three.
C38_Witness ==
    /\ rd.on
    /\ rd.nreads = 2
    /\ rd.failed
    /\ ~rd.eof
    /\ rd.buf = << 1, 2, 3 >>

\* C39: normalize has a result for every value, normalize of the result is
\* the result, and the result neither starts nor ends with a space, has no
\* two spaces in a row, no tab, CR or LF, and no comma followed by a space.
C39_NormalizeIdempotent ==
    kout.op = "idem" =>
        LET s == kout.once
        IN  /\ kout.twice = s
            /\ s # <<>> => s[1] # " " /\ s[Len(s)] # " "
            /\ \A i \in 1..Len(s) : s[i] \notin { "\t", "\n", "\r" }
            /\ \A i \in 1..(Len(s) - 1) :
                  /\ ~( s[i] = " " /\ s[i + 1] = " " )
                  /\ ~( s[i] = "," /\ s[i + 1] = " " )

\* normalize turned ", \ta" into ",a", and again into ",a".
C39_Witness ==
    /\ kout.op = "idem"
    /\ kin.x = << ",", " ", "\t", "a" >>
    /\ kout.once = << ",", "a" >>
    /\ kout.twice = << ",", "a" >>

\* The step of RoundTrip that runs cacheResponse on a forwarded response.
Cached(p) == pc[p] = "respond" /\ pc'[p] # "respond" /\ out[p].rep # Nil

\* A header name that starts with the X-Varied- prefix.
IsVariedName(n) ==
    /\ Len(n) >= Len(XVariedPrefix)
    /\ SubSeq(n, 1, Len(XVariedPrefix)) = XVariedPrefix

\* C40: caching leaves the status and the header set of the response handed
\* to the caller as the origin sent them; the X-Varied-* markers are on the
\* stored representation only.
C40_CallerResponseUnchanged ==
    [][ \A p \in Procs :
          Cached(p) =>
             /\ out'[p].rep.status = out[p].rep.status
             /\ out'[p].rep.header = out[p].rep.header ]_vars

\* C40, as the code has it: caching leaves the status, the body bytes and
\* every header of the origin's response other than X-Varied-* as they were,
\* and whatever it adds or changes is an X-Varied-<name> marker of a name of
\* the response's Vary list holding the request's normalized value; a
\* response that is going to be stored (its body wrapped, or a Put pending)
\* is handed to the caller with the marker of every name of its Vary list.
C40_CallerResponseGainsMarkers ==
    [][ \A p \in Procs :
          Cached(p) =>
             LET old == out[p].rep
                 new == out'[p].rep
                 marker(n) == XVariedPrefix \o n
             IN  /\ new.status = old.status
                 /\ new.body = old.body
                 /\ DOMAIN old.header \subseteq DOMAIN new.header
                 /\ \A h \in DOMAIN new.header :
                       \/ h \in DOMAIN old.header /\ new.header[h] = old.header[h]
                       \/ /\ IsVariedName(h)
                          /\ \E n \in VaryNames(old) :
                                /\ h = marker(n)
                                /\ new.header[h]
                                      = << normalize(HeaderGet(req[p].header, n)) >>
                 /\ ( body'[p].on \/ pend'[p].keys # <<>> ) =>
                       \A n \in VaryNames(old) : marker(n) \in DOMAIN new.header ]_vars

\* The GET with Accept-Language: " fr" was forwarded, the origin's response
\* had no X-Varied-* header, and the response in the caller's hands, its
\* body wrapped for caching, has X-Varied-Accept-Language: fr.
C40_Witness ==
    \E p \in Procs :
        /\ cfg = "markers"
        /\ req[p].method = MethodGet
        /\ out[p].fwd
        /\ out[p].rep # Nil
        /\ body[p].on
        /\ \A h \in DOMAIN Cfg.originHeader : ~IsVariedName(h)
        /\ XVariedPrefix \o AcceptLanguage \in DOMAIN out[p].rep.header
        /\ out[p].rep.header[XVariedPrefix \o AcceptLanguage] = << Fr >>

=============================================================================
